---------------------------- MODULE Spec2Model ----------------------------
(***************************************************************************)
(* State-machine model of the Game Boy emulator core: the cartridge bank   *)
(* controllers (cartridge.rs), the memory bus (mmu.rs) and the CPU         *)
(* interpreter's step, interrupt dispatch and stack discipline (cpu.rs).   *)
(*                                                                         *)
(* The Rust structs are records (Cpu, Registers, Mmu, Cartridge); a method *)
(* taking &mut self is an operator from the record to the updated record,  *)
(* so that the statements of a handler compose in source order.  Arrays    *)
(* that the constructors fill with one value (WRAM, HRAM, cartridge RAM)   *)
(* are kept sparse: a function from the indices that differ from the fill  *)
(* value to their bytes.                                                   *)
(***************************************************************************)
EXTENDS Integers, Sequences, FiniteSets, TLC

VARIABLES
    cpu,    \* the Cpu struct: registers, halted, ime, ime_scheduled
    mmu,    \* the Mmu struct, owning the Cartridge
    obs,    \* what the last operation was given and what it returned
    hist    \* history of the inputs the claims speak about

vars == <<cpu, mmu, obs, hist>>

---------------------------------------------------------------------------
(* Fixed-width integer arithmetic of the source (u8, u16, bit operators).  *)

Byte == 0..255

RECURSIVE BitAnd(_, _)
BitAnd(x, y) ==
    IF x = 0 \/ y = 0 THEN 0
    ELSE (x % 2) * (y % 2) + 2 * BitAnd(x \div 2, y \div 2)

RECURSIVE BitOr(_, _)
BitOr(x, y) ==
    IF x = 0 THEN y
    ELSE IF y = 0 THEN x
    ELSE (IF x % 2 = 1 \/ y % 2 = 1 THEN 1 ELSE 0) + 2 * BitOr(x \div 2, y \div 2)

RECURSIVE BitXor(_, _)
BitXor(x, y) ==
    IF x = 0 THEN y
    ELSE IF y = 0 THEN x
    ELSE ((x + y) % 2) + 2 * BitXor(x \div 2, y \div 2)

\* !x on a u8
Not8(x) == 255 - x

Shl(x, n) == x * (2 ^ n)

Shr(x, n) == x \div (2 ^ n)

\* casts and wrapping arithmetic
U8(x) == x % 256

WrappingAdd16(x, y) == (x + y) % 65536

WrappingSub16(x, y) == (x + 65536 - y) % 65536

WrappingAdd8(x, y) == (x + y) % 256

WrappingSub8(x, y) == (x + 256 - y) % 256

---------------------------------------------------------------------------
(* Sparse arrays: `fill` everywhere except on DOMAIN f.                    *)

Load(f, key, fill) == IF key \in DOMAIN f THEN f[key] ELSE fill

Store(f, key, value, fill) ==
    IF value = fill
    THEN [k \in DOMAIN f \ {key} |-> f[k]]
    ELSE [k \in DOMAIN f \cup {key} |-> IF k = key THEN value ELSE f[k]]

EmptyArray == [k \in {} |-> 0]

---------------------------------------------------------------------------
(* Cartridge (cartridge.rs).                                               *)
(*                                                                         *)
(* The ROM image is an input file.  It is described by its length, the two *)
(* header bytes load() decodes, the code bytes a program occupies and a    *)
(* seed for the remaining bytes, so that images of up to 512 banks need no *)
(* explicit byte table: every bank and every offset inside a bank holds a  *)
(* different byte pattern.                                                 *)

\* 0x4000
ROM_BANK_SIZE == 16384

\* 0x2000
RAM_BANK_SIZE == 8192

RomByte(rom, i) ==
    IF i \in DOMAIN rom.code THEN rom.code[i]
    ELSE IF i = \h147 THEN rom.type_byte     \* 0x147
    ELSE IF i = \h149 THEN rom.ram_byte      \* 0x149
    ELSE (rom.seed + \h11 * (i \div ROM_BANK_SIZE)
                   + 7 * (i \div (\h80 * ROM_BANK_SIZE))
                   + 3 * (i % ROM_BANK_SIZE)) % \h100

\* match cart_type_byte { ... } of load(): (controller, has_battery)
CartTypeOf(b) ==
    CASE b = 0 -> <<"RomOnly", FALSE>>
      [] b \in {1, 2} -> <<"Mbc1", FALSE>>
      [] b = 3 -> <<"Mbc1", TRUE>>
      [] b = 5 -> <<"Mbc2", FALSE>>
      [] b = 6 -> <<"Mbc2", TRUE>>
      [] b \in {\h0F, \h10, \h13} -> <<"Mbc3", TRUE>>
      [] b \in {\h11, \h12} -> <<"Mbc3", FALSE>>
      [] b \in {\h19, \h1A, \h1C, \h1D} -> <<"Mbc5", FALSE>>
      [] b \in {\h1B, \h1E} -> <<"Mbc5", TRUE>>
      [] OTHER -> <<"Mbc1", FALSE>>

\* match ram_size_byte { ... } of load()
RamSizeOf(b, cart_type) ==
    CASE b = 0 -> 0
      [] b = 1 -> \h800
      [] b = 2 -> \h2000
      [] b = 3 -> \h8000
      [] b = 4 -> \h20000
      [] b = 5 -> \h10000
      [] OTHER -> IF cart_type = "Mbc2" THEN 512 ELSE 0

\* Cartridge::load, with no save file beside the ROM
CartridgeLoad(rom) ==
    LET cart_type_byte == IF rom.len >= \h148 THEN RomByte(rom, \h147) ELSE 0
        kind == CartTypeOf(cart_type_byte)
        ram_size_byte == IF rom.len >= \h149 THEN RomByte(rom, \h149) ELSE 0
        ram_size == RamSizeOf(ram_size_byte, kind[1])
    IN  [ rom |-> rom,
          ram |-> [len |-> ram_size, bytes |-> EmptyArray],
          cart_type |-> kind[1],
          bank |-> 1,
          bank_mode |-> "Rom",
          ram_enabled |-> FALSE,
          rtc_register |-> 0,
          rtc_latched |-> FALSE,
          rom_bank_low |-> 1,
          rom_bank_high |-> 0,
          ram_bank |-> 0,
          save_path |-> kind[2] /\ ram_size > 0,
          has_battery |-> kind[2] ]

\* the save file next to the ROM: absent, or the bytes a save() wrote
NoFile == [exists |-> FALSE, len |-> 0, bytes |-> EmptyArray]

\* Cartridge::load with the filesystem it reads: the RAM vector is created
\* with ram_size zero bytes and read_to_end appends the save file to it
load(rom, file) ==
    LET c == CartridgeLoad(rom)
        appended ==
            [len |-> c.ram.len + file.len,
             bytes |-> [k \in {c.ram.len + j : j \in DOMAIN file.bytes} |->
                            file.bytes[k - c.ram.len]]]
    IN  IF c.save_path /\ file.exists THEN [c EXCEPT !.ram = appended] ELSE c

\* Cartridge::save: File::create and write_all(&self.ram); the result is
\* the save file afterwards
save(c, file) ==
    IF c.save_path THEN [exists |-> TRUE, len |-> c.ram.len, bytes |-> c.ram.bytes]
    ELSE file

\* rom_bank without the remap of bank 0 to bank 1
rom_bank_no_remap(c) ==
    IF c.cart_type = "Mbc5"
    THEN BitOr(Shl(BitAnd(c.rom_bank_high, 1), 8), c.rom_bank_low)
    ELSE IF c.bank_mode = "Rom" THEN BitAnd(c.bank, \h7F) ELSE BitAnd(c.bank, \h1F)

\* rom_bank with the remap of bank 0 applied to every controller, MBC5 too
rom_bank_remap_all(c) ==
    LET n == IF c.cart_type = "Mbc5"
             THEN BitOr(Shl(BitAnd(c.rom_bank_high, 1), 8), c.rom_bank_low)
             ELSE IF c.bank_mode = "Rom" THEN BitAnd(c.bank, \h7F)
             ELSE BitAnd(c.bank, \h1F)
    IN  IF n = 0 THEN 1 ELSE n

rom_bank(c) ==
    IF c.cart_type = "Mbc5"
    THEN BitOr(Shl(BitAnd(c.rom_bank_high, 1), 8), c.rom_bank_low)
    ELSE LET n == IF c.bank_mode = "Rom" THEN BitAnd(c.bank, \h7F)
                  ELSE BitAnd(c.bank, \h1F)
         IN  IF n = 0 THEN 1 ELSE n

ram_bank(c) ==
    IF c.cart_type = "Mbc5"
    THEN BitAnd(c.ram_bank, \h0F)
    ELSE IF c.bank_mode = "Rom" THEN 0 ELSE Shr(BitAnd(c.bank, \h60), 5)

\* read_rom with the window base left in the offset of the switchable bank
read_rom_window_base(c, address) ==
    IF address > \h7FFF THEN \hFF
    ELSE LET addr == IF address <= \h3FFF
                     THEN (IF c.bank_mode = "Rom" THEN 0
                           ELSE Shr(BitAnd(c.bank, \h60), 5)) * ROM_BANK_SIZE + address
                     ELSE rom_bank(c) * ROM_BANK_SIZE + address
         IN  IF addr < c.rom.len THEN RomByte(c.rom, addr) ELSE \hFF

read_rom(c, address) ==
    IF address > \h7FFF THEN \hFF
    ELSE LET addr == IF address <= \h3FFF
                     THEN (IF c.bank_mode = "Rom" THEN 0
                           ELSE Shr(BitAnd(c.bank, \h60), 5)) * ROM_BANK_SIZE + address
                     ELSE rom_bank(c) * ROM_BANK_SIZE + (address - \h4000)
         IN  IF addr < c.rom.len THEN RomByte(c.rom, addr) ELSE \hFF

read_ram(c, address) ==
    IF ~c.ram_enabled THEN \hFF
    ELSE IF c.cart_type = "Mbc2"
    THEN LET addr == BitAnd(address - \hA000, \h1FF)
         IN  IF addr < c.ram.len THEN BitAnd(Load(c.ram.bytes, addr, 0), \h0F) ELSE \hFF
    ELSE IF c.cart_type = "Mbc3" /\ c.rtc_register >= 8 /\ c.rtc_register <= \h0C
    THEN 0
    ELSE LET addr == ram_bank(c) * RAM_BANK_SIZE + (address - \hA000)
         IN  IF addr < c.ram.len THEN Load(c.ram.bytes, addr, 0) ELSE \hFF

\* write_ram without the early return on a clear RAM-enable latch
write_ram_ungated(c, address, value) ==
    IF c.cart_type = "Mbc2"
    THEN LET addr == BitAnd(address - \hA000, \h1FF)
         IN  IF addr < c.ram.len
             THEN [c EXCEPT !.ram.bytes = Store(@, addr, BitAnd(value, \h0F), 0)]
             ELSE c
    ELSE IF c.cart_type = "Mbc3" /\ c.rtc_register >= 8 /\ c.rtc_register <= \h0C
    THEN c
    ELSE LET addr == ram_bank(c) * RAM_BANK_SIZE + (address - \hA000)
         IN  IF addr < c.ram.len
             THEN [c EXCEPT !.ram.bytes = Store(@, addr, value, 0)]
             ELSE c

write_ram(c, address, value) ==
    IF ~c.ram_enabled THEN c
    ELSE IF c.cart_type = "Mbc2"
    THEN LET addr == BitAnd(address - \hA000, \h1FF)
         IN  IF addr < c.ram.len
             THEN [c EXCEPT !.ram.bytes = Store(@, addr, BitAnd(value, \h0F), 0)]
             ELSE c
    ELSE IF c.cart_type = "Mbc3" /\ c.rtc_register >= 8 /\ c.rtc_register <= \h0C
    THEN c
    ELSE LET addr == ram_bank(c) * RAM_BANK_SIZE + (address - \hA000)
         IN  IF addr < c.ram.len
             THEN [c EXCEPT !.ram.bytes = Store(@, addr, value, 0)]
             ELSE c

write_rom_mbc1(c, address, value) ==
    IF address <= \h1FFF
    THEN [c EXCEPT !.ram_enabled = (BitAnd(value, \h0F) = \h0A)]
    ELSE IF address <= \h3FFF
    THEN [c EXCEPT !.bank = BitOr(BitAnd(c.bank, \h60), BitAnd(value, \h1F))]
    ELSE IF address <= \h5FFF
    THEN [c EXCEPT !.bank = BitOr(BitAnd(c.bank, \h1F), Shl(BitAnd(value, 3), 5))]
    ELSE IF address <= \h7FFF
    THEN [c EXCEPT !.bank_mode = IF BitAnd(value, 1) # 0 THEN "Ram" ELSE "Rom"]
    ELSE c

write_rom_mbc2(c, address, value) ==
    IF address <= \h1FFF
    THEN IF BitAnd(address, \h100) = 0
         THEN [c EXCEPT !.ram_enabled = (BitAnd(value, \h0F) = \h0A)]
         ELSE c
    ELSE IF address <= \h3FFF
    THEN IF BitAnd(address, \h100) # 0
         THEN [c EXCEPT !.bank = BitAnd(value, \h0F)]
         ELSE c
    ELSE c

write_rom_mbc3(c, address, value) ==
    IF address <= \h1FFF
    THEN [c EXCEPT !.ram_enabled = (BitAnd(value, \h0F) = \h0A)]
    ELSE IF address <= \h3FFF
    THEN [c EXCEPT !.bank = IF BitAnd(value, \h7F) = 0 THEN 1 ELSE BitAnd(value, \h7F)]
    ELSE IF address <= \h5FFF
    THEN IF value <= 3
         THEN [c EXCEPT !.bank = BitOr(BitAnd(c.bank, \h7F), Shl(BitAnd(value, 3), 5))]
         ELSE IF value >= 8 /\ value <= \h0C
         THEN [c EXCEPT !.rtc_register = value]
         ELSE c
    ELSE IF address <= \h7FFF
    THEN IF value = 1 THEN [c EXCEPT !.rtc_latched = TRUE]
         ELSE IF value = 0 THEN [c EXCEPT !.rtc_latched = FALSE]
         ELSE c
    ELSE c

write_rom_mbc5(c, address, value) ==
    IF address <= \h1FFF
    THEN [c EXCEPT !.ram_enabled = (BitAnd(value, \h0F) = \h0A)]
    ELSE IF address <= \h2FFF
    THEN [c EXCEPT !.rom_bank_low = value]
    ELSE IF address <= \h3FFF
    THEN [c EXCEPT !.rom_bank_high = BitAnd(value, 1)]
    ELSE IF address <= \h5FFF
    THEN [c EXCEPT !.ram_bank = BitAnd(value, \h0F)]
    ELSE c

write_rom(c, address, value) ==
    CASE c.cart_type = "RomOnly" -> c
      [] c.cart_type = "Mbc1" -> write_rom_mbc1(c, address, value)
      [] c.cart_type = "Mbc2" -> write_rom_mbc2(c, address, value)
      [] c.cart_type = "Mbc3" -> write_rom_mbc3(c, address, value)
      [] c.cart_type = "Mbc5" -> write_rom_mbc5(c, address, value)

---------------------------------------------------------------------------
(* Timer (timer.rs): the divider, TIMA, TMA, TAC and the two cycle         *)
(* accumulators.                                                           *)

TimerNew ==
    [div |-> 0, tima |-> 0, tma |-> 0, tac |-> 0, div_cycles |-> 0, tima_cycles |-> 0]

\* timer_step clearing the TIMA accumulator on a tick instead of keeping the
\* remainder
timer_step_drop_remainder(t, cycles) ==
    LET RECURSIVE div_loop(_)
        div_loop(u) ==
            IF u.div_cycles >= 256
            THEN div_loop([u EXCEPT !.div = WrappingAdd16(@, 1), !.div_cycles = @ - 256])
            ELSE u
        t1 == div_loop([t EXCEPT !.div_cycles = @ + cycles])
        frequency == CASE BitAnd(t1.tac, 3) = 0 -> 1024
                       [] BitAnd(t1.tac, 3) = 1 -> 16
                       [] BitAnd(t1.tac, 3) = 2 -> 64
                       [] BitAnd(t1.tac, 3) = 3 -> 256
        RECURSIVE tima_loop(_)
        tima_loop(r) ==
            IF r.timer.tima_cycles >= frequency
            THEN IF r.timer.tima = \hFF
                 THEN tima_loop([timer |-> [r.timer EXCEPT !.tima_cycles = 0,
                                                           !.tima = r.timer.tma],
                                 interrupt |-> TRUE])
                 ELSE tima_loop([timer |-> [r.timer EXCEPT !.tima_cycles = 0,
                                                           !.tima = WrappingAdd8(@, 1)],
                                 interrupt |-> r.interrupt])
            ELSE r
    IN  IF BitAnd(t1.tac, 4) = 0
        THEN [timer |-> t1, interrupt |-> FALSE]
        ELSE tima_loop([timer |-> [t1 EXCEPT !.tima_cycles = @ + cycles],
                        interrupt |-> FALSE])

\* Timer::step: the updated timer and the interrupt request it returns
timer_step(t, cycles) ==
    LET RECURSIVE div_loop(_)
        div_loop(u) ==
            IF u.div_cycles >= 256
            THEN div_loop([u EXCEPT !.div = WrappingAdd16(@, 1), !.div_cycles = @ - 256])
            ELSE u
        t1 == div_loop([t EXCEPT !.div_cycles = @ + cycles])
        frequency == CASE BitAnd(t1.tac, 3) = 0 -> 1024
                       [] BitAnd(t1.tac, 3) = 1 -> 16
                       [] BitAnd(t1.tac, 3) = 2 -> 64
                       [] BitAnd(t1.tac, 3) = 3 -> 256
        RECURSIVE tima_loop(_)
        tima_loop(r) ==
            IF r.timer.tima_cycles >= frequency
            THEN IF r.timer.tima = \hFF
                 THEN tima_loop([timer |-> [r.timer EXCEPT !.tima_cycles = @ - frequency,
                                                           !.tima = r.timer.tma],
                                 interrupt |-> TRUE])
                 ELSE tima_loop([timer |-> [r.timer EXCEPT !.tima_cycles = @ - frequency,
                                                           !.tima = WrappingAdd8(@, 1)],
                                 interrupt |-> r.interrupt])
            ELSE r
    IN  IF BitAnd(t1.tac, 4) = 0
        THEN [timer |-> t1, interrupt |-> FALSE]
        ELSE tima_loop([timer |-> [t1 EXCEPT !.tima_cycles = @ + cycles],
                        interrupt |-> FALSE])

---------------------------------------------------------------------------
(* Ppu (ppu.rs).  vram is indexed by <<bank, offset>> (fill 0), oam by     *)
(* offset (fill 0xFF), framebuffer by y * 160 + x (fill: the colour new()   *)
(* paints it with), bg_priority by x (fill 0).                             *)

SCREEN_WIDTH == 160

SCREEN_HEIGHT == 144

\* a run of array stores: updates[k] written at every k of its domain
StoreAll(f, updates, fill) ==
    LET kept == {k \in DOMAIN updates : updates[k] # fill}
    IN  [k \in (DOMAIN f \ DOMAIN updates) \cup kept |->
            IF k \in DOMAIN updates THEN updates[k] ELSE f[k]]

default_color(is_gbc) == IF is_gbc THEN \hFFFFFF ELSE \h9BBC0F

default_gbc_palette ==
    LET test_colors == << <<31, 31, 31>>, <<31, 0, 0>>, <<0, 31, 0>>, <<0, 0, 31>> >>
        gray_colors == << <<31, 31, 31>>, <<21, 21, 21>>, <<10, 10, 10>>, <<0, 0, 0>> >>
        color15(t) == BitOr(BitAnd(t[1], \h1F),
                            BitOr(Shl(BitAnd(t[2], \h1F), 5), Shl(BitAnd(t[3], \h1F), 10)))
    IN  [i \in 0..63 |->
            LET colors == IF i \div 8 = 0 THEN test_colors ELSE gray_colors
                c == color15(colors[(i % 8) \div 2 + 1])
            IN  IF i % 2 = 0 THEN BitAnd(c, \hFF) ELSE BitAnd(Shr(c, 8), \hFF)]

PpuNew(is_gbc) ==
    [ vram |-> EmptyArray,
      oam |-> EmptyArray,
      framebuffer |-> EmptyArray,
      lcdc |-> \h91,
      stat |-> \h85,
      scy |-> 0,
      scx |-> 0,
      ly |-> 0,
      lyc |-> 0,
      bgp |-> \hFC,
      obp0 |-> \hFF,
      obp1 |-> \hFF,
      wy |-> 0,
      wx |-> 0,
      vram_bank |-> IF is_gbc THEN \hFE ELSE 0,
      bcps |-> IF is_gbc THEN \hC8 ELSE 0,
      bcpd |-> default_gbc_palette,
      ocps |-> IF is_gbc THEN \hD0 ELSE 0,
      ocpd |-> default_gbc_palette,
      is_gbc |-> is_gbc,
      dots |-> 0,
      frame_ready |-> FALSE,
      stat_interrupt |-> FALSE,
      bg_priority |-> EmptyArray,
      window_line |-> 0 ]

get_bg_color(p, color_num) ==
    LET palette_color == BitAnd(Shr(p.bgp, color_num * 2), 3)
    IN  CASE palette_color = 0 -> \h9BBC0F
          [] palette_color = 1 -> \h8BAC0F
          [] palette_color = 2 -> \h306230
          [] palette_color = 3 -> \h0F380F

get_sprite_color(color_num, palette) ==
    LET palette_color == BitAnd(Shr(palette, color_num * 2), 3)
    IN  CASE palette_color = 0 -> \h9BBC0F
          [] palette_color = 1 -> \h8BAC0F
          [] palette_color = 2 -> \h306230
          [] palette_color = 3 -> \h0F380F

\* get_gbc_bg_color (data = bcpd) and get_gbc_sprite_color (data = ocpd),
\* with convert_gbc_color
get_gbc_color(data, color_num, palette_num) ==
    LET addr == BitAnd(palette_num, 7) * 8 + BitAnd(color_num, 3) * 2
        color15 == BitOr(data[addr], Shl(data[addr + 1], 8))
        r == BitAnd(color15, \h1F)
        g == BitAnd(Shr(color15, 5), \h1F)
        b == BitAnd(Shr(color15, 10), \h1F)
        r8 == BitOr(Shl(r, 3), Shr(r, 2))
        g8 == BitOr(Shl(g, 3), Shr(g, 2))
        b8 == BitOr(Shl(b, 3), Shr(b, 2))
    IN  IF addr + 1 >= 64 THEN \hFFFFFF
        ELSE BitOr(Shl(r8, 16), BitOr(Shl(g8, 8), b8))

\* render_bg_window, loop body: what the loop does at screen column x
\* (skip: one of its `continue`s is taken)
bg_pixel(p, y, x) ==
    LET window_enabled == BitAnd(p.lcdc, \h20) # 0 /\ p.wy <= p.ly
        wx_offset == IF p.wx >= 7 THEN p.wx - 7 ELSE 0
        in_window == window_enabled /\ x >= wx_offset
        pixel_x == IF in_window THEN WrappingSub8(x, wx_offset) ELSE WrappingAdd8(p.scx, x)
        pixel_y == IF in_window THEN p.window_line ELSE WrappingAdd8(p.scy, y)
        tile_map_base ==
            IF in_window
            THEN (IF BitAnd(p.lcdc, \h40) # 0 THEN \h1C00 ELSE \h1800)
            ELSE (IF BitAnd(p.lcdc, \h08) # 0 THEN \h1C00 ELSE \h1800)
        tile_x == BitAnd(pixel_x \div 8, 31)
        tile_y == BitAnd(pixel_y \div 8, 31)
        pixel_x_in_tile == pixel_x % 8
        pixel_y_in_tile == pixel_y % 8
        tile_map_addr == tile_map_base + tile_y * 32 + tile_x
        tile_num == Load(p.vram, <<0, tile_map_addr>>, 0)
        attr == Load(p.vram, <<1, tile_map_addr>>, 0)
        palette_num == IF p.is_gbc THEN BitAnd(attr, \h07) ELSE 0
        flip_x == p.is_gbc /\ BitAnd(attr, \h20) # 0
        flip_y == p.is_gbc /\ BitAnd(attr, \h40) # 0
        tile_addr ==
            IF BitAnd(p.lcdc, \h10) # 0 THEN tile_num * 16
            ELSE (\h1000 + (IF tile_num >= \h80 THEN tile_num - 256 ELSE tile_num) * 16) % 65536
        tile_vram_bank == IF p.is_gbc /\ BitAnd(attr, \h08) # 0 THEN 1 ELSE 0
        line == IF flip_y THEN 7 - pixel_y_in_tile ELSE pixel_y_in_tile
        byte1 == Load(p.vram, <<tile_vram_bank, tile_addr + line * 2>>, 0)
        byte2 == Load(p.vram, <<tile_vram_bank, tile_addr + line * 2 + 1>>, 0)
        bit == IF flip_x THEN pixel_x_in_tile ELSE 7 - pixel_x_in_tile
        color_num == BitOr(Shl(BitAnd(Shr(byte2, bit), 1), 1), BitAnd(Shr(byte1, bit), 1))
    IN  [ in_window |-> in_window,
          skip |-> tile_map_addr >= \h2000 \/ tile_addr + pixel_y_in_tile * 2 + 1 >= \h2000,
          color_num |-> color_num,
          color |-> IF p.is_gbc THEN get_gbc_color(p.bcpd, color_num, palette_num)
                    ELSE get_bg_color(p, color_num) ]

render_bg_window(p, y) ==
    LET drawn == {x \in 0..(SCREEN_WIDTH - 1) : ~bg_pixel(p, y, x).skip}
    IN  [p EXCEPT
            !.bg_priority = StoreAll(@, [x \in drawn |-> bg_pixel(p, y, x).color_num], 0),
            !.framebuffer =
                StoreAll(@, [k \in {y * SCREEN_WIDTH + x : x \in drawn} |->
                                bg_pixel(p, y, k - y * SCREEN_WIDTH).color],
                         default_color(p.is_gbc)),
            !.window_line =
                IF \E x \in 0..(SCREEN_WIDTH - 1) : bg_pixel(p, y, x).in_window
                THEN WrappingAdd8(@, 1) ELSE @]

\* render_sprites, lines 358-396: the OAM indices it draws, in drawing order
visible_sprites(p, y) ==
    LET sprite_height == IF BitAnd(p.lcdc, \h04) # 0 THEN 16 ELSE 8
        sprite_y_raw(i) == Load(p.oam, i * 4, \hFF)
        sprite_x_raw(i) == Load(p.oam, i * 4 + 1, \hFF)
        pushed == {i \in 0..39 :
                       /\ sprite_y_raw(i) # 0
                       /\ y >= sprite_y_raw(i) - 16
                       /\ y < sprite_y_raw(i) - 16 + sprite_height
                       /\ sprite_x_raw(i) > 0 /\ sprite_x_raw(i) < 168}
        truncated == {i \in pushed : Cardinality({j \in pushed : j < i}) < 10}
        before(a, b) ==
            \/ sprite_x_raw(b) < sprite_x_raw(a)
            \/ sprite_x_raw(b) = sprite_x_raw(a) /\ a < b
        RECURSIVE sorted(_)
        sorted(S) ==
            IF S = {} THEN <<>>
            ELSE LET first == CHOOSE a \in S : \A b \in S \ {a} : before(a, b)
                 IN  <<first>> \o sorted(S \ {first})
    IN  sorted(truncated)

\* render_sprites, lines 400-485: the framebuffer columns sprite_idx writes on
\* line y, with the colour it writes there
sprite_pixels(p, y, sprite_idx) ==
    LET sprite_height == IF BitAnd(p.lcdc, \h04) # 0 THEN 16 ELSE 8
        oam_addr == sprite_idx * 4
        sprite_y_raw == Load(p.oam, oam_addr, \hFF)
        sprite_x_raw == Load(p.oam, oam_addr + 1, \hFF)
        tile_num == Load(p.oam, oam_addr + 2, \hFF)
        attributes == Load(p.oam, oam_addr + 3, \hFF)
        palette == IF BitAnd(attributes, \h10) # 0 THEN p.obp1 ELSE p.obp0
        flip_y == BitAnd(attributes, \h40) # 0
        flip_x == BitAnd(attributes, \h20) # 0
        priority == BitAnd(attributes, \h80) # 0
        gbc_palette == IF p.is_gbc THEN BitAnd(attributes, \h07) ELSE 0
        gbc_vram_bank == IF p.is_gbc /\ BitAnd(attributes, \h08) # 0 THEN 1 ELSE 0
        sprite_y == sprite_y_raw - 16
        sprite_x == sprite_x_raw - 8
        line == IF flip_y THEN (sprite_height - 1) - (y - sprite_y) ELSE y - sprite_y
        tile_addr ==
            IF sprite_height = 16
            THEN (IF line < 8 THEN BitAnd(tile_num, \hFE) ELSE BitOr(tile_num, \h01)) * 16
                     + (line % 8) * 2
            ELSE tile_num * 16 + line * 2
        byte1 == Load(p.vram, <<gbc_vram_bank, tile_addr>>, 0)
        byte2 == Load(p.vram, <<gbc_vram_bank, tile_addr + 1>>, 0)
        color_num(x) ==
            LET bit == IF flip_x THEN x ELSE 7 - x
            IN  BitOr(Shl(BitAnd(Shr(byte2, bit), 1), 1), BitAnd(Shr(byte1, bit), 1))
        written == {x \in 0..7 :
                        /\ sprite_x + x >= 0 /\ sprite_x + x < 160
                        /\ color_num(x) # 0
                        /\ ~(priority /\ Load(p.bg_priority, sprite_x + x, 0) # 0)}
    IN  IF tile_addr + 1 >= \h2000 THEN EmptyArray
        ELSE [pixel_x \in {sprite_x + x : x \in written} |->
                 IF p.is_gbc
                 THEN get_gbc_color(p.ocpd, color_num(pixel_x - sprite_x), gbc_palette)
                 ELSE get_sprite_color(color_num(pixel_x - sprite_x), palette)]

render_sprites(p, y) ==
    LET order == visible_sprites(p, y)
        RECURSIVE draw(_, _)
        draw(framebuffer, n) ==
            IF n > Len(order) THEN framebuffer
            ELSE CHOOSE drawn \in
                     {draw(StoreAll(framebuffer,
                                    [k \in {y * SCREEN_WIDTH + x : x \in DOMAIN pixels} |->
                                        pixels[k - y * SCREEN_WIDTH]],
                                    default_color(p.is_gbc)),
                           n + 1) : pixels \in {sprite_pixels(p, y, order[n])}} : TRUE
    IN  [p EXCEPT !.framebuffer = draw(@, 1)]

\* render_scanline with the guard one row short: the last row is never drawn
render_scanline_without_last_row(p) ==
    IF BitAnd(p.lcdc, \h80) = 0 \/ p.ly >= SCREEN_HEIGHT - 1 THEN p
    ELSE CHOOSE rendered \in
             {IF BitAnd(p2.lcdc, \h02) # 0 THEN render_sprites(p2, p2.ly) ELSE p2 :
                 p2 \in {IF BitAnd(p1.lcdc, \h01) # 0 THEN render_bg_window(p1, p1.ly) ELSE p1 :
                            p1 \in {[p EXCEPT !.bg_priority = EmptyArray]}}} : TRUE

render_scanline(p) ==
    IF BitAnd(p.lcdc, \h80) = 0 \/ p.ly >= SCREEN_HEIGHT THEN p
    ELSE CHOOSE rendered \in
             {IF BitAnd(p2.lcdc, \h02) # 0 THEN render_sprites(p2, p2.ly) ELSE p2 :
                 p2 \in {IF BitAnd(p1.lcdc, \h01) # 0 THEN render_bg_window(p1, p1.ly) ELSE p1 :
                            p1 \in {[p EXCEPT !.bg_priority = EmptyArray]}}} : TRUE

\* step, lines 160-173 and 198-211, with the dot counter reset to 0 at the
\* end of a line
ppu_advance_line_drop_dots(q) ==
    LET q1 == [q EXCEPT !.dots = 0, !.ly = @ + 1]
    IN  IF q1.ly = q1.lyc
        THEN [q1 EXCEPT !.stat = BitOr(@, \h04),
                        !.stat_interrupt = IF BitAnd(q1.stat, \h40) # 0 THEN TRUE ELSE @]
        ELSE [q1 EXCEPT !.stat = BitAnd(@, \hFB)]

\* step, lines 160-173 and 198-211: the end of a line in modes 0 and 1
ppu_advance_line(q) ==
    LET q1 == [q EXCEPT !.dots = @ - 456, !.ly = @ + 1]
    IN  IF q1.ly = q1.lyc
        THEN [q1 EXCEPT !.stat = BitOr(@, \h04),
                        !.stat_interrupt = IF BitAnd(q1.stat, \h40) # 0 THEN TRUE ELSE @]
        ELSE [q1 EXCEPT !.stat = BitAnd(@, \hFB)]

\* the mode match with the HBlank interrupt raised whatever STAT bit 3 says
ppu_step_mode_hblank_ungated(q) ==
    LET old_mode == BitAnd(q.stat, \h03)
        enter(r, mode) == [r EXCEPT !.stat = BitOr(BitAnd(@, \hFC), mode)]
        raise(r, bit) == IF BitAnd(r.stat, bit) # 0 THEN [r EXCEPT !.stat_interrupt = TRUE] ELSE r
    IN  CASE old_mode = 2 -> IF q.dots >= 80 THEN enter(q, 3) ELSE q
          [] old_mode = 3 ->
                IF q.dots >= 252
                THEN [render_scanline(enter(q, 0)) EXCEPT !.stat_interrupt = TRUE]
                ELSE q
          [] old_mode = 0 ->
                IF q.dots >= 456
                THEN LET q1 == ppu_advance_line(q)
                     IN  IF q1.ly = 144
                         THEN raise([enter(q1, 1) EXCEPT !.frame_ready = TRUE,
                                                         !.window_line = 0], \h10)
                         ELSE raise(enter(q1, 2), \h20)
                ELSE q
          [] old_mode = 1 ->
                IF q.dots >= 456
                THEN LET q1 == ppu_advance_line(q)
                     IN  IF q1.ly > 153
                         THEN raise(enter([q1 EXCEPT !.ly = 0], 2), \h20)
                         ELSE q1
                ELSE q

\* step, lines 136-225: the match on the mode the chunk began in
ppu_step_mode(q) ==
    LET old_mode == BitAnd(q.stat, \h03)
        enter(r, mode) == [r EXCEPT !.stat = BitOr(BitAnd(@, \hFC), mode)]
        raise(r, bit) == IF BitAnd(r.stat, bit) # 0 THEN [r EXCEPT !.stat_interrupt = TRUE] ELSE r
    IN  CASE old_mode = 2 -> IF q.dots >= 80 THEN enter(q, 3) ELSE q
          [] old_mode = 3 ->
                IF q.dots >= 252
                THEN CHOOSE r \in {raise(p, \h08) : p \in {render_scanline(enter(q, 0))}} : TRUE
                ELSE q
          [] old_mode = 0 ->
                IF q.dots >= 456
                THEN LET q1 == ppu_advance_line(q)
                     IN  IF q1.ly = 144
                         THEN raise([enter(q1, 1) EXCEPT !.frame_ready = TRUE,
                                                         !.window_line = 0], \h10)
                         ELSE raise(enter(q1, 2), \h20)
                ELSE q
          [] old_mode = 1 ->
                IF q.dots >= 456
                THEN LET q1 == ppu_advance_line(q)
                     IN  IF q1.ly > 153
                         THEN raise(enter([q1 EXCEPT !.ly = 0], 2), \h20)
                         ELSE q1
                ELSE q

\* Ppu::step with an LCD-off branch that leaves LY where it was
ppu_step_lcd_off_keeps_ly(p, cycles) ==
    LET p0 == [p EXCEPT !.stat_interrupt = FALSE]
        chunks == (cycles - 1) \div 80 + 1
        RECURSIVE chunk_loop(_, _)
        chunk_loop(q, i) ==
            IF i >= chunks THEN q
            ELSE LET dots_to_add == IF i = chunks - 1 THEN cycles % 80 ELSE 80
                 IN  IF dots_to_add = 0 THEN chunk_loop(q, i + 1)
                     ELSE chunk_loop(ppu_step_mode([q EXCEPT !.dots = @ + dots_to_add]), i + 1)
    IN  IF BitAnd(p0.lcdc, \h80) = 0
        THEN [p0 EXCEPT !.stat = BitAnd(@, \hFC), !.dots = 0]
        ELSE chunk_loop(p0, 0)

\* Ppu::step
ppu_step(p, cycles) ==
    LET p0 == [p EXCEPT !.stat_interrupt = FALSE]
        chunks == (cycles - 1) \div 80 + 1
        RECURSIVE chunk_loop(_, _)
        chunk_loop(q, i) ==
            IF i >= chunks THEN q
            ELSE LET dots_to_add == IF i = chunks - 1 THEN cycles % 80 ELSE 80
                 IN  IF dots_to_add = 0 THEN chunk_loop(q, i + 1)
                     ELSE chunk_loop(ppu_step_mode([q EXCEPT !.dots = @ + dots_to_add]), i + 1)
    IN  IF BitAnd(p0.lcdc, \h80) = 0
        THEN [p0 EXCEPT !.ly = 0, !.stat = BitAnd(@, \hFC), !.dots = 0]
        ELSE chunk_loop(p0, 0)

---------------------------------------------------------------------------
(* Joypad (joypad.rs): the two select lines, the eight keys, and the       *)
(* interrupt tracking of check_interrupt.                                  *)

JoypadNew ==
    [ select_button |-> FALSE, select_dpad |-> FALSE,
      down |-> FALSE, up |-> FALSE, left |-> FALSE, right |-> FALSE,
      start |-> FALSE, select |-> FALSE, b |-> FALSE, a |-> FALSE,
      prev_state |-> \hFF, interrupt_requested |-> FALSE ]

\* Joypad::read
joypad_read(j) ==
    LET Clear(result, cond, mask) == IF cond THEN BitAnd(result, mask) ELSE result
        buttons(result) ==
            IF j.select_button
            THEN Clear(Clear(Clear(Clear(BitAnd(result, \hEF), j.start, \hF7),
                                   j.select, \hFB), j.b, \hFD), j.a, \hFE)
            ELSE result
        dpad(result) ==
            IF j.select_dpad
            THEN Clear(Clear(Clear(Clear(BitAnd(result, \hDF), j.down, \hF7),
                                   j.up, \hFB), j.left, \hFD), j.right, \hFE)
            ELSE result
    IN  dpad(buttons(\hCF))

\* Joypad::write
joypad_write(j, value) ==
    [j EXCEPT !.select_button = BitAnd(value, \h20) = 0,
              !.select_dpad = BitAnd(value, \h10) = 0]

check_interrupt(j, new_state) ==
    LET changed == BitAnd(j.prev_state, \hFF - new_state)
    IN  [j EXCEPT !.interrupt_requested = IF BitAnd(changed, \h0F) # 0 THEN TRUE ELSE @,
                  !.prev_state = new_state]

\* Joypad::set_up .. Joypad::set_select: the key is stored, then the new
\* register value is checked against prev_state
joypad_set(j, key, pressed) ==
    LET stored == [j EXCEPT ![key] = pressed]
    IN  check_interrupt(stored, joypad_read(stored))

---------------------------------------------------------------------------
(* Mmu (mmu.rs): address decode, work RAM, high RAM, IE, IF.               *)
(* wram is indexed by <<bank, offset>>, hram by offset.  The I/O page      *)
(* holds the registers of the Mmu struct, the joypad, the timer and the    *)
(* PPU; the registers of the APU are outside the bus operations used here. *)

MmuNew(cartridge, is_gbc) ==
    [ cartridge |-> cartridge,
      ppu |-> PpuNew(is_gbc),
      joypad |-> JoypadNew,
      timer |-> TimerNew,
      wram |-> EmptyArray,
      wram_bank |-> 1,
      hram |-> EmptyArray,
      ie |-> 0,
      if_reg |-> 0,
      is_gbc |-> is_gbc,
      key1 |-> 0,
      hdma_source |-> 0,
      hdma_dest |-> 0 ]

\* bank of the switchable WRAM window
WramBank(m) == IF m.is_gbc THEN m.wram_bank ELSE 1

\* registers of the APU (decoded by read_io/write_io into that component)
PeripheralRegs == (\hFF10..\hFF26) \cup (\hFF30..\hFF3F)

\* registers read_io and write_io decode into fields of the Mmu, the timer
\* and the PPU
MmuRegs ==
    {\hFF00, \hFF01, \hFF02, \hFF0F, \hFF4D, \hFF4F, \hFF70} \cup (\hFF04..\hFF07)
        \cup (\hFF40..\hFF4B) \cup (\hFF51..\hFF55) \cup (\hFF68..\hFF6B)

\* I/O addresses that fall to the `_` arm of read_io and write_io
UnmappedIo == (\hFF00..\hFF7F) \ (PeripheralRegs \cup MmuRegs)

read_io(m, address) ==
    CASE address = \hFF00 -> joypad_read(m.joypad)
      [] address = \hFF01 -> \hFF
      [] address = \hFF02 -> \h7E
      [] address = \hFF04 -> U8(Shr(m.timer.div, 8))
      [] address = \hFF05 -> m.timer.tima
      [] address = \hFF06 -> m.timer.tma
      [] address = \hFF07 -> BitOr(m.timer.tac, \hF8)
      [] address = \hFF0F -> m.if_reg
      [] address = \hFF40 -> m.ppu.lcdc
      [] address = \hFF41 -> m.ppu.stat
      [] address = \hFF42 -> m.ppu.scy
      [] address = \hFF43 -> m.ppu.scx
      [] address = \hFF44 -> m.ppu.ly
      [] address = \hFF45 -> m.ppu.lyc
      [] address = \hFF46 -> \hFF
      [] address = \hFF47 -> m.ppu.bgp
      [] address = \hFF48 -> m.ppu.obp0
      [] address = \hFF49 -> m.ppu.obp1
      [] address = \hFF4A -> m.ppu.wy
      [] address = \hFF4B -> m.ppu.wx
      [] address = \hFF4D -> m.key1
      [] address = \hFF4F -> m.ppu.vram_bank
      [] address \in \hFF51..\hFF55 -> \hFF
      [] address = \hFF68 -> m.ppu.bcps
      [] address = \hFF69 -> m.ppu.bcpd[BitAnd(m.ppu.bcps, \h3F)]
      [] address = \hFF6A -> m.ppu.ocps
      [] address = \hFF6B -> m.ppu.ocpd[BitAnd(m.ppu.ocps, \h3F)]
      [] address = \hFF70 -> m.wram_bank
      [] address \in UnmappedIo -> \hFF

read_byte(m, address) ==
    CASE address <= \h7FFF -> read_rom(m.cartridge, address)
      [] address \in \h8000..\h9FFF ->
            Load(m.ppu.vram, <<IF m.ppu.is_gbc THEN BitAnd(m.ppu.vram_bank, 1) ELSE 0,
                               address - \h8000>>, 0)
      [] address \in \hA000..\hBFFF -> read_ram(m.cartridge, address)
      [] address \in \hC000..\hCFFF -> Load(m.wram, <<0, address - \hC000>>, 0)
      [] address \in \hD000..\hDFFF -> Load(m.wram, <<WramBank(m), address - \hD000>>, 0)
      [] address \in \hE000..\hEFFF -> Load(m.wram, <<0, address - \hE000>>, 0)
      [] address \in \hF000..\hFDFF -> Load(m.wram, <<WramBank(m), address - \hF000>>, 0)
      [] address \in \hFE00..\hFE9F -> Load(m.ppu.oam, address - \hFE00, \hFF)
      [] address \in \hFEA0..\hFEFF -> 0
      [] address \in \hFF00..\hFF7F -> read_io(m, address)
      [] address \in \hFF80..\hFFFE -> Load(m.hram, address - \hFF80, 0)
      [] address = \hFFFF -> m.ie

\* Mmu::do_dma: 160 bytes from (source << 8) + i to OAM, the source decoded
\* by do_dma's own match
do_dma(m, source) ==
    LET base == Shl(source, 8)
        value(source_addr) ==
            CASE source_addr <= \h7FFF -> read_rom(m.cartridge, source_addr)
              [] source_addr \in \h8000..\h9FFF ->
                    Load(m.ppu.vram,
                         <<IF m.ppu.is_gbc THEN BitAnd(m.ppu.vram_bank, 1) ELSE 0,
                           source_addr - \h8000>>, 0)
              [] source_addr \in \hA000..\hBFFF -> read_ram(m.cartridge, source_addr)
              [] source_addr \in \hC000..\hCFFF ->
                    Load(m.wram, <<0, source_addr - \hC000>>, 0)
              [] source_addr \in \hD000..\hDFFF ->
                    Load(m.wram, <<WramBank(m), source_addr - \hD000>>, 0)
              [] source_addr \in \hE000..\hEFFF ->
                    Load(m.wram, <<0, source_addr - \hE000>>, 0)
              [] source_addr \in \hF000..\hFDFF ->
                    Load(m.wram, <<WramBank(m), source_addr - \hF000>>, 0)
              [] OTHER -> \hFF
    IN  [m EXCEPT !.ppu.oam = StoreAll(@, [i \in 0..\h9F |-> value(base + i)], \hFF)]

\* the HDMA arm of write_io (0xFF55): len bytes read at src and written to
\* VRAM from dst on.  A dst past 0x9FFF indexes outside the VRAM bank, which
\* ends the transfer (and the thread) there.
\* write_io, 0xFF55: Ppu::write_vram (ppu.rs:571-574) is reached with an
\* address past 0x9FFF, whose index is outside the 0x2000 bytes of the bank
hdma_overruns(m, value) ==
    BitOr(BitAnd(m.hdma_dest, \h1FF0), \h8000) + (BitAnd(value, \h7F) + 1) * 16 > \hA000

hdma_transfer(m, value) ==
    LET len == (BitAnd(value, \h7F) + 1) * 16
        src == BitAnd(m.hdma_source, \hFFF0)
        bank == IF m.ppu.is_gbc THEN BitAnd(m.ppu.vram_bank, 1) ELSE 0
        RECURSIVE transfer(_, _, _)
        transfer(q, dst, i) ==
            IF i >= len \/ dst > \h9FFF THEN q
            ELSE transfer([q EXCEPT !.ppu.vram = Store(@, <<bank, dst - \h8000>>,
                                                       read_byte(q, src), 0),
                                    !.hdma_source = WrappingAdd16(@, 1)],
                          dst + 1, i + 1)
    IN  transfer(m, BitOr(BitAnd(m.hdma_dest, \h1FF0), \h8000), 0)

write_io(m, address, value) ==
    CASE address = \hFF00 -> [m EXCEPT !.joypad = joypad_write(@, value)]
      [] address \in {\hFF01, \hFF02} -> m
      [] address = \hFF04 -> [m EXCEPT !.timer.div = 0, !.timer.div_cycles = 0]
      [] address = \hFF05 -> [m EXCEPT !.timer.tima = value]
      [] address = \hFF06 -> [m EXCEPT !.timer.tma = value]
      [] address = \hFF07 -> [m EXCEPT !.timer.tac = BitAnd(value, \h07)]
      [] address = \hFF0F -> [m EXCEPT !.if_reg = BitAnd(value, \h1F)]
      [] address = \hFF40 -> [m EXCEPT !.ppu.lcdc = value]
      [] address = \hFF41 ->
            [m EXCEPT !.ppu.stat = BitOr(BitAnd(value, \hF8), BitAnd(m.ppu.stat, \h07))]
      [] address = \hFF42 -> [m EXCEPT !.ppu.scy = value]
      [] address = \hFF43 -> [m EXCEPT !.ppu.scx = value]
      [] address = \hFF44 -> m
      [] address = \hFF45 -> [m EXCEPT !.ppu.lyc = value]
      [] address = \hFF46 -> do_dma(m, value)
      [] address = \hFF47 -> [m EXCEPT !.ppu.bgp = value]
      [] address = \hFF48 -> [m EXCEPT !.ppu.obp0 = value]
      [] address = \hFF49 -> [m EXCEPT !.ppu.obp1 = value]
      [] address = \hFF4A -> [m EXCEPT !.ppu.wy = value]
      [] address = \hFF4B -> [m EXCEPT !.ppu.wx = value]
      [] address = \hFF4F -> [m EXCEPT !.ppu.vram_bank = BitAnd(value, \h01)]
      [] address = \hFF68 -> [m EXCEPT !.ppu.bcps = value]
      [] address = \hFF69 ->
            [m EXCEPT !.ppu.bcpd[BitAnd(m.ppu.bcps, \h3F)] = value,
                      !.ppu.bcps = IF BitAnd(@, \h80) # 0
                                   THEN BitOr(BitAnd(@, \h80), BitAnd(@ + 1, \h3F)) ELSE @]
      [] address = \hFF6A -> [m EXCEPT !.ppu.ocps = value]
      [] address = \hFF6B ->
            [m EXCEPT !.ppu.ocpd[BitAnd(m.ppu.ocps, \h3F)] = value,
                      !.ppu.ocps = IF BitAnd(@, \h80) # 0
                                   THEN BitOr(BitAnd(@, \h80), BitAnd(@ + 1, \h3F)) ELSE @]
      [] address = \hFF4D ->
            [m EXCEPT !.key1 = BitOr(BitAnd(m.key1, \h80), BitAnd(value, 1))]
      [] address = \hFF51 ->
            [m EXCEPT !.hdma_source = BitOr(BitAnd(m.hdma_source, \h00FF), Shl(value, 8))]
      [] address = \hFF52 ->
            [m EXCEPT !.hdma_source = BitOr(BitAnd(m.hdma_source, \hFF00), value)]
      [] address = \hFF53 ->
            [m EXCEPT !.hdma_dest = BitOr(BitAnd(m.hdma_dest, \h00FF), Shl(value, 8))]
      [] address = \hFF54 ->
            [m EXCEPT !.hdma_dest = BitOr(BitAnd(m.hdma_dest, \hFF00), value)]
      [] address = \hFF55 -> hdma_transfer(m, value)
      [] address = \hFF70 ->
            [m EXCEPT !.wram_bank = IF BitAnd(value, 7) = 0 THEN 1 ELSE BitAnd(value, 7)]
      [] address \in UnmappedIo -> m

write_byte(m, address, value) ==
    CASE address <= \h7FFF ->
            [m EXCEPT !.cartridge = write_rom(m.cartridge, address, value)]
      [] address \in \h8000..\h9FFF ->
            [m EXCEPT !.ppu.vram =
                Store(@, <<IF m.ppu.is_gbc THEN BitAnd(m.ppu.vram_bank, 1) ELSE 0,
                           address - \h8000>>, value, 0)]
      [] address \in \hA000..\hBFFF ->
            [m EXCEPT !.cartridge = write_ram(m.cartridge, address, value)]
      [] address \in \hC000..\hCFFF ->
            [m EXCEPT !.wram = Store(@, <<0, address - \hC000>>, value, 0)]
      [] address \in \hD000..\hDFFF ->
            [m EXCEPT !.wram = Store(@, <<WramBank(m), address - \hD000>>, value, 0)]
      [] address \in \hE000..\hEFFF ->
            [m EXCEPT !.wram = Store(@, <<0, address - \hE000>>, value, 0)]
      [] address \in \hF000..\hFDFF ->
            [m EXCEPT !.wram = Store(@, <<WramBank(m), address - \hF000>>, value, 0)]
      [] address \in \hFE00..\hFE9F ->
            [m EXCEPT !.ppu.oam = Store(@, address - \hFE00, value, \hFF)]
      [] address \in \hFEA0..\hFEFF -> m
      [] address \in \hFF00..\hFF7F -> write_io(m, address, value)
      [] address \in \hFF80..\hFFFE ->
            [m EXCEPT !.hram = Store(@, address - \hFF80, value, 0)]
      [] address = \hFFFF -> [m EXCEPT !.ie = value]

\* Mmu::step losing the timer's interrupt request
mmu_step_drops_timer_request(m, cycles) ==
    [m EXCEPT !.timer = timer_step(m.timer, cycles).timer]

\* Mmu::step: the timer is stepped and its interrupt collected (the APU it
\* also steps keeps its state to itself)
mmu_step(m, cycles) ==
    LET r == timer_step(m.timer, cycles)
    IN  [m EXCEPT !.timer = r.timer,
                  !.if_reg = IF r.interrupt THEN BitOr(@, \h04) ELSE @]

---------------------------------------------------------------------------
(* Cpu (cpu.rs): the register file and the interpreter state.              *)

RegistersNew ==
    [ a |-> \h01, b |-> \h00, c |-> \h13, d |-> \h00, e |-> \hD8,
      h |-> \h01, l |-> \h4D, f |-> \hB0, sp |-> \hFFFE, pc |-> \h0100 ]

CpuNew ==
    [ registers |-> RegistersNew,
      halted |-> FALSE,
      ime |-> FALSE,
      ime_scheduled |-> FALSE ]

\* enum Flag: 0b1000_0000, 0b0100_0000, 0b0010_0000, 0b0001_0000
Zero == 128

Subtract == 64

HalfCarry == 32

Carry == 16

\* Registers::af, Registers::bc, Registers::set_bc
af(r) == BitOr(Shl(r.a, 8), r.f)

bc(r) == BitOr(Shl(r.b, 8), r.c)

set_bc(r, value) == [r EXCEPT !.b = U8(Shr(value, 8)), !.c = U8(value)]

get_flag(r, flag) == BitAnd(r.f, flag) # 0

set_flag(r, flag, value) ==
    [r EXCEPT !.f = IF value THEN BitOr(@, flag) ELSE BitAnd(@, Not8(flag))]

\* the four set_flag calls most helpers end with, in source order
set_znhc(r, z, n, h, c) ==
    set_flag(set_flag(set_flag(set_flag(r, Zero, z), Subtract, n), HalfCarry, h), Carry, c)

\* the three set_flag calls of inc and dec
set_znh(r, z, n, h) ==
    set_flag(set_flag(set_flag(r, Zero, z), Subtract, n), HalfCarry, h)

CarryIn(r) == IF get_flag(r, Carry) THEN 1 ELSE 0

\* ALU helpers of Cpu; each takes and returns the register file
inc(r, value) ==
    LET result == WrappingAdd8(value, 1)
    IN  [value |-> result,
         registers |-> set_znh(r, result = 0, FALSE, BitAnd(value, \h0F) + 1 > \h0F)]

dec(r, value) ==
    LET result == WrappingSub8(value, 1)
    IN  [value |-> result,
         registers |-> set_znh(r, result = 0, TRUE, BitAnd(value, \h0F) = 0)]

add(r, value) ==
    LET a == r.a
        result == WrappingAdd8(a, value)
        r1 == set_znhc(r, result = 0, FALSE,
                       BitAnd(a, \h0F) + BitAnd(value, \h0F) > \h0F,
                       a + value > \hFF)
    IN  [r1 EXCEPT !.a = result]

adc(r, value) ==
    LET a == r.a
        carry == CarryIn(r)
        result == WrappingAdd8(WrappingAdd8(a, value), carry)
        r1 == set_znhc(r, result = 0, FALSE,
                       BitAnd(a, \h0F) + BitAnd(value, \h0F) + carry > \h0F,
                       a + value + carry > \hFF)
    IN  [r1 EXCEPT !.a = result]

sub(r, value) ==
    LET a == r.a
        result == WrappingSub8(a, value)
        r1 == set_znhc(r, result = 0, TRUE,
                       BitAnd(a, \h0F) < BitAnd(value, \h0F), a < value)
    IN  [r1 EXCEPT !.a = result]

sbc(r, value) ==
    LET a == r.a
        carry == CarryIn(r)
        result == WrappingSub8(WrappingSub8(a, value), carry)
        r1 == set_znhc(r, result = 0, TRUE,
                       BitAnd(a, \h0F) < BitAnd(value, \h0F) + carry,
                       a < value + carry)
    IN  [r1 EXCEPT !.a = result]

and(r, value) ==
    LET r1 == [r EXCEPT !.a = BitAnd(@, value)]
    IN  set_znhc(r1, r1.a = 0, FALSE, TRUE, FALSE)

or(r, value) ==
    LET r1 == [r EXCEPT !.a = BitOr(@, value)]
    IN  set_znhc(r1, r1.a = 0, FALSE, FALSE, FALSE)

xor(r, value) ==
    LET r1 == [r EXCEPT !.a = BitXor(@, value)]
    IN  set_znhc(r1, r1.a = 0, FALSE, FALSE, FALSE)

cp(r, value) ==
    LET a == r.a
    IN  set_znhc(r, a = value, TRUE, BitAnd(a, \h0F) < BitAnd(value, \h0F), a < value)

rl(r, is_a, set_zero) ==
    LET value == IF is_a THEN r.a ELSE r.c
        carry == CarryIn(r)
        new_carry == BitAnd(value, \h80) # 0
        result == BitOr(U8(Shl(value, 1)), carry)
        r1 == IF is_a THEN [r EXCEPT !.a = result] ELSE [r EXCEPT !.c = result]
    IN  set_znhc(r1, set_zero /\ result = 0, FALSE, FALSE, new_carry)

rr(r, is_a, set_zero) ==
    LET value == IF is_a THEN r.a ELSE 0
        carry == IF get_flag(r, Carry) THEN \h80 ELSE 0
        new_carry == BitAnd(value, \h01) # 0
        result == BitOr(Shr(value, 1), carry)
        r1 == IF is_a THEN [r EXCEPT !.a = result] ELSE r
    IN  set_znhc(r1, FALSE, FALSE, FALSE, new_carry)

\* u8::rotate_left(1), u8::rotate_right(1)
RotateLeft1(value) == BitOr(U8(Shl(value, 1)), Shr(value, 7))

RotateRight1(value) == BitOr(Shr(value, 1), U8(Shl(value, 7)))

rlc(r, is_a, set_zero) ==
    LET value == IF is_a THEN r.a ELSE 0
        carry == BitAnd(value, \h80) # 0
        result == RotateLeft1(value)
        r1 == IF is_a THEN [r EXCEPT !.a = result] ELSE r
    IN  set_znhc(r1, FALSE, FALSE, FALSE, carry)

rrc(r, is_a, set_zero) ==
    LET value == IF is_a THEN r.a ELSE 0
        carry == BitAnd(value, \h01) # 0
        result == RotateRight1(value)
        r1 == IF is_a THEN [r EXCEPT !.a = result] ELSE r
    IN  set_znhc(r1, FALSE, FALSE, FALSE, carry)

daa(r) ==
    LET a0 == r.a
        add60 == get_flag(r, Carry) \/ a0 > \h99
        a1 == IF add60 THEN WrappingAdd8(a0, \h60) ELSE a0
        r1 == IF add60 THEN set_flag(r, Carry, TRUE) ELSE r
        a2 == IF get_flag(r1, HalfCarry) \/ BitAnd(a1, \h0F) > \h09
              THEN WrappingAdd8(a1, \h06) ELSE a1
        s1 == IF get_flag(r, Carry) THEN WrappingSub8(a0, \h60) ELSE a0
        s2 == IF get_flag(r, HalfCarry) THEN WrappingSub8(s1, \h06) ELSE s1
        a == IF ~get_flag(r, Subtract) THEN a2 ELSE s2
        r2 == IF ~get_flag(r, Subtract) THEN r1 ELSE r
    IN  set_flag(set_flag([r2 EXCEPT !.a = a], Zero, a = 0), HalfCarry, FALSE)

\* Helper methods of Cpu.  A method that returns a value and advances the
\* CPU gives a record of both.
read_byte_pc(c, m) ==
    [value |-> read_byte(m, c.registers.pc),
     cpu |-> [c EXCEPT !.registers.pc = WrappingAdd16(@, 1)]]

\* push_stack storing the low byte first
push_stack_low_first(c, m, value) ==
    LET sp1 == WrappingSub16(c.registers.sp, 1)
        m1 == write_byte(m, sp1, U8(value))
        sp2 == WrappingSub16(sp1, 1)
        m2 == write_byte(m1, sp2, U8(Shr(value, 8)))
    IN  [cpu |-> [c EXCEPT !.registers.sp = sp2], mmu |-> m2]

push_stack(c, m, value) ==
    LET sp1 == WrappingSub16(c.registers.sp, 1)
        m1 == write_byte(m, sp1, U8(Shr(value, 8)))
        sp2 == WrappingSub16(sp1, 1)
        m2 == write_byte(m1, sp2, U8(value))
    IN  [cpu |-> [c EXCEPT !.registers.sp = sp2], mmu |-> m2]

pop_stack(c, m) ==
    LET low == read_byte(m, c.registers.sp)
        sp1 == WrappingAdd16(c.registers.sp, 1)
        high == read_byte(m, sp1)
        sp2 == WrappingAdd16(sp1, 1)
    IN  [value |-> BitOr(Shl(high, 8), low),
         cpu |-> [c EXCEPT !.registers.sp = sp2]]

\* i8 as u16: sign extension of an offset byte
SignExtend(offset) == IF offset >= \h80 THEN \hFF00 + offset ELSE offset

\* what execute returns: the updated CPU and bus, and the cycle count
Done(c, m, cycles) == [cpu |-> c, mmu |-> m, cycles |-> cycles]

\* LD B,n / LD C,n / LD A,n
execute_ld_r_n(opcode, c, m) ==
    LET v == read_byte_pc(c, m)
    IN  CASE opcode = \h06 -> Done([v.cpu EXCEPT !.registers.b = v.value], m, 8)
          [] opcode = \h0E -> Done([v.cpu EXCEPT !.registers.c = v.value], m, 8)
          [] opcode = \h3E -> Done([v.cpu EXCEPT !.registers.a = v.value], m, 8)

\* ADD/ADC/SUB/SBC/AND/XOR/OR/CP with an immediate operand
execute_alu_n(opcode, c, m) ==
    LET v == read_byte_pc(c, m)
        r == v.cpu.registers
        r1 == CASE opcode = \hC6 -> add(r, v.value)
                [] opcode = \hCE -> adc(r, v.value)
                [] opcode = \hD6 -> sub(r, v.value)
                [] opcode = \hDE -> sbc(r, v.value)
                [] opcode = \hE6 -> and(r, v.value)
                [] opcode = \hEE -> xor(r, v.value)
                [] opcode = \hF6 -> or(r, v.value)
                [] opcode = \hFE -> cp(r, v.value)
    IN  Done([v.cpu EXCEPT !.registers = r1], m, 8)

\* INC A, DEC A, the accumulator rotates, DAA, CPL, CCF, SCF
execute_alu_a(opcode, c, m) ==
    LET r == c.registers
        r1 == CASE opcode = \h3C -> LET v == inc(r, r.a)
                                    IN  [v.registers EXCEPT !.a = v.value]
                [] opcode = \h3D -> LET v == dec(r, r.a)
                                    IN  [v.registers EXCEPT !.a = v.value]
                [] opcode = \h17 -> rl(r, TRUE, FALSE)
                [] opcode = \h1F -> rr(r, TRUE, FALSE)
                [] opcode = \h07 -> rlc(r, TRUE, FALSE)
                [] opcode = \h0F -> rrc(r, TRUE, FALSE)
                [] opcode = \h27 -> daa(r)
                [] opcode = \h2F ->
                     set_flag(set_flag([r EXCEPT !.a = Not8(@)], Subtract, TRUE),
                              HalfCarry, TRUE)
                [] opcode = \h3F ->
                     set_flag(set_flag(set_flag(r, Subtract, FALSE), HalfCarry, FALSE),
                              Carry, ~get_flag(r, Carry))
                [] opcode = \h37 ->
                     set_flag(set_flag(set_flag(r, Subtract, FALSE), HalfCarry, FALSE),
                              Carry, TRUE)
    IN  Done([c EXCEPT !.registers = r1], m, 4)

\* PUSH BC, PUSH AF
execute_push(opcode, c, m) ==
    LET v == IF opcode = \hC5 THEN bc(c.registers) ELSE af(c.registers)
        s == push_stack(c, m, v)
    IN  Done(s.cpu, s.mmu, 16)

\* POP BC
execute_pop_bc(c, m) ==
    LET v == pop_stack(c, m)
    IN  Done([v.cpu EXCEPT !.registers = set_bc(@, v.value)], m, 12)

\* POP AF keeping all eight bits of the popped low byte in F
execute_pop_af_unmasked(c, m) ==
    LET v == pop_stack(c, m)
    IN  Done([v.cpu EXCEPT !.registers.a = U8(Shr(v.value, 8)),
                           !.registers.f = U8(v.value)], m, 12)

\* POP AF
execute_pop_af(c, m) ==
    LET v == pop_stack(c, m)
    IN  Done([v.cpu EXCEPT !.registers.a = U8(Shr(v.value, 8)),
                           !.registers.f = U8(BitAnd(v.value, \hF0))], m, 12)

\* LDH (n),A and LDH A,(n)
execute_ldh(opcode, c, m) ==
    LET v == read_byte_pc(c, m)
    IN  IF opcode = \hE0
        THEN Done(v.cpu, write_byte(m, \hFF00 + v.value, c.registers.a), 12)
        ELSE Done([v.cpu EXCEPT !.registers.a = read_byte(m, \hFF00 + v.value)], m, 12)

\* JR n
execute_jr(c, m) ==
    LET v == read_byte_pc(c, m)
    IN  Done([v.cpu EXCEPT !.registers.pc = WrappingAdd16(@, SignExtend(v.value))], m, 12)

\* RET and RETI
execute_ret(opcode, c, m) ==
    LET v == pop_stack(c, m)
        c1 == [v.cpu EXCEPT !.registers.pc = v.value]
    IN  IF opcode = \hD9 THEN Done([c1 EXCEPT !.ime = TRUE], m, 16)
        ELSE Done(c1, m, 16)

\* STOP
execute_stop(c, m) ==
    LET v == read_byte_pc(c, m)
        key1 == read_byte(m, \hFF4D)
        m1 == IF BitAnd(key1, \h01) # 0
              THEN write_byte(m, \hFF4D, BitXor(key1, \h80)) ELSE m
    IN  Done([v.cpu EXCEPT !.halted = TRUE], m1, 4)

\* opcodes with no arm in execute's match, which fall to its `_` arm
UnknownOpcodes == {\hD3, \hDB, \hDD, \hE3, \hE4, \hEB, \hEC, \hED, \hF4, \hFC, \hFD}

\* Cpu::execute, for the opcodes the programs below use
execute(opcode, c, m) ==
    CASE opcode \in {\h06, \h0E, \h3E} -> execute_ld_r_n(opcode, c, m)
      [] opcode \in {\hC6, \hCE, \hD6, \hDE, \hE6, \hEE, \hF6, \hFE} ->
            execute_alu_n(opcode, c, m)
      [] opcode \in {\h3C, \h3D, \h17, \h1F, \h07, \h0F, \h27, \h2F, \h3F, \h37} ->
            execute_alu_a(opcode, c, m)
      [] opcode \in {\hC5, \hF5} -> execute_push(opcode, c, m)
      [] opcode = \hC1 -> execute_pop_bc(c, m)
      [] opcode = \hF1 -> execute_pop_af(c, m)
      [] opcode \in {\hE0, \hF0} -> execute_ldh(opcode, c, m)
      [] opcode = \h18 -> execute_jr(c, m)
      [] opcode \in {\hC9, \hD9} -> execute_ret(opcode, c, m)
      [] opcode = \h00 -> Done(c, m, 4)
      [] opcode = \h10 -> execute_stop(c, m)
      [] opcode = \h76 -> Done([c EXCEPT !.halted = TRUE], m, 4)
      [] opcode = \hF3 -> Done([c EXCEPT !.ime = FALSE, !.ime_scheduled = FALSE], m, 4)
      [] opcode = \hFB -> Done([c EXCEPT !.ime_scheduled = TRUE], m, 4)
      [] opcode \in UnknownOpcodes -> Done(c, m, 4)

\* step, lines 116-119: a scheduled IME enable is applied first
step_ime_scheduled(c) ==
    IF c.ime_scheduled THEN [c EXCEPT !.ime = TRUE, !.ime_scheduled = FALSE] ELSE c

\* step, lines 122-124: IF & IE
Triggered(m) == BitAnd(read_byte(m, \hFF0F), m.ie)

\* the priority chain taken from its last arm upwards
interrupt_vector_highest_first(triggered) ==
    IF BitAnd(triggered, \h10) # 0 THEN <<\h0060, 4>>
    ELSE IF BitAnd(triggered, \h08) # 0 THEN <<\h0058, 3>>
    ELSE IF BitAnd(triggered, \h04) # 0 THEN <<\h0050, 2>>
    ELSE IF BitAnd(triggered, \h02) # 0 THEN <<\h0048, 1>>
    ELSE <<\h0040, 0>>

\* step, lines 133-145: (vector, bit) of the interrupt to service
interrupt_vector(triggered) ==
    IF BitAnd(triggered, \h01) # 0 THEN <<\h0040, 0>>
    ELSE IF BitAnd(triggered, \h02) # 0 THEN <<\h0048, 1>>
    ELSE IF BitAnd(triggered, \h04) # 0 THEN <<\h0050, 2>>
    ELSE IF BitAnd(triggered, \h08) # 0 THEN <<\h0058, 3>>
    ELSE IF BitAnd(triggered, \h10) # 0 THEN <<\h0060, 4>>
    ELSE <<\h0040, 0>>

\* waking from HALT only when the interrupt can also be dispatched
step_wake_needs_ime(c, triggered) ==
    IF triggered # 0 /\ c.ime THEN [c EXCEPT !.halted = FALSE] ELSE c

\* step, lines 126-127: a pending enabled interrupt wakes the CPU
step_wake(c, triggered) ==
    IF triggered # 0 THEN [c EXCEPT !.halted = FALSE] ELSE c

\* what step returns, with what it did: "dispatch", "halt" or "exec", and the
\* opcode it fetched (-1 when it fetched none)
Stepped(s, kind, opcode) ==
    [cpu |-> s.cpu, mmu |-> s.mmu, cycles |-> s.cycles, kind |-> kind, opcode |-> opcode]

\* step, lines 130-150: interrupt dispatch
step_dispatch(c, m, interrupt_flag, triggered) ==
    LET c1 == [c EXCEPT !.ime = FALSE]
        vb == interrupt_vector(triggered)
        m1 == write_byte(m, \hFF0F, BitAnd(interrupt_flag, Not8(Shl(1, vb[2]))))
        s == push_stack(c1, m1, c1.registers.pc)
    IN  Done([s.cpu EXCEPT !.registers.pc = vb[1]], s.mmu, 20)

\* Cpu::step with a halted CPU returning no cycles
step_halt_no_cycles(c, m) ==
    LET c1 == step_ime_scheduled(c)
        interrupt_flag == read_byte(m, \hFF0F)
        triggered == BitAnd(interrupt_flag, m.ie)
        c2 == step_wake(c1, triggered)
    IN  IF triggered # 0 /\ c2.ime
        THEN Stepped(step_dispatch(c2, m, interrupt_flag, triggered), "dispatch", -1)
        ELSE IF c2.halted
        THEN Stepped(Done(c2, m, 0), "halt", -1)
        ELSE LET opcode == read_byte(m, c2.registers.pc)
                 c3 == [c2 EXCEPT !.registers.pc = WrappingAdd16(@, 1)]
             IN  Stepped(execute(opcode, c3, m), "exec", opcode)

\* Cpu::step
step(c, m) ==
    LET c1 == step_ime_scheduled(c)
        interrupt_flag == read_byte(m, \hFF0F)
        triggered == BitAnd(interrupt_flag, m.ie)
        c2 == step_wake(c1, triggered)
    IN  IF triggered # 0 /\ c2.ime
        THEN Stepped(step_dispatch(c2, m, interrupt_flag, triggered), "dispatch", -1)
        ELSE IF c2.halted
        THEN Stepped(Done(c2, m, 4), "halt", -1)
        ELSE LET opcode == read_byte(m, c2.registers.pc)
                 c3 == [c2 EXCEPT !.registers.pc = WrappingAdd16(@, 1)]
             IN  Stepped(execute(opcode, c3, m), "exec", opcode)

---------------------------------------------------------------------------
(* Bus operations as the CPU (or a test) issues them: one write_byte or    *)
(* one read_byte.  obs keeps the operation, its address and its result;    *)
(* hist keeps, for each bank-controller register window it tracks, the     *)
(* last byte written into that window (-1: never written).                 *)

NoObs == [op |-> "none", address |-> 0, result |-> 0]

Window(w) ==
    CASE w = "enable" -> \h0000..\h1FFF
      [] w = "lo"     -> \h2000..\h2FFF
      [] w = "hi"     -> \h3000..\h3FFF
      [] w = "low"    -> \h2000..\h3FFF
      [] w = "upper"  -> \h4000..\h5FFF
      [] w = "mode"   -> \h6000..\h7FFF

HistNew(windows) == [w \in windows |-> -1]

HistWrite(h, address, value) ==
    [w \in DOMAIN h |-> IF address \in Window(w) THEN value ELSE h[w]]

BusWrite(addresses, values) ==
    \E address \in addresses, value \in values :
        /\ mmu' = write_byte(mmu, address, value)
        /\ obs' = [op |-> "write", address |-> address, result |-> 0]
        /\ hist' = HistWrite(hist, address, value)
        /\ UNCHANGED cpu

BusRead(addresses) ==
    \E address \in addresses :
        /\ obs' = [op |-> "read", address |-> address,
                   result |-> read_byte(mmu, address)]
        /\ UNCHANGED <<cpu, mmu, hist>>

---------------------------------------------------------------------------
(* SpecBank: a cartridge of any controller kind receives bank-controller   *)
(* writes (0x0000-0x7FFF) and ROM reads, in any order.                     *)

\* ROM images of 32 KiB (2 banks) and 8 MiB (512 banks) whose header byte
\* 0x147 says ROM only, MBC1, MBC2, MBC3 or MBC5
InitBank ==
    \E rom \in [len : {\h8000, \h800000}, type_byte : {\h00, \h03, \h06, \h13, \h1B},
                ram_byte : {\h03}, seed : {\h35}, code : {EmptyArray}] :
        /\ cpu = CpuNew
        /\ mmu = MmuNew(CartridgeLoad(rom), FALSE)
        /\ obs = NoObs
        /\ hist = HistNew(IF CartridgeLoad(rom).cart_type = "Mbc5"
                          THEN {"lo", "hi"} ELSE {"low", "upper"})

BankWrite ==
    BusWrite({\h0000, \h1FFF, \h2000, \h2FFF, \h3000, \h3FFF,
              \h4000, \h5FFF, \h6000, \h7FFF},
             {\h00, \h01, \h02, \h20, \h61, \h80, \hE3})

BankRead == BusRead({\h0000, \h0150, \h3FFF, \h4000, \h4001, \h7FFF})

SpecBank == InitBank /\ [][BankWrite \/ BankRead]_vars

---------------------------------------------------------------------------
(* SpecMbc5: an MBC5 cartridge whose low bank register takes every byte.   *)

InitMbc5 ==
    \E rom \in [len : {\h8000, \h800000}, type_byte : {\h1B}, ram_byte : {\h03},
                seed : {\h35}, code : {EmptyArray}] :
        /\ cpu = CpuNew
        /\ mmu = MmuNew(CartridgeLoad(rom), FALSE)
        /\ obs = NoObs
        /\ hist = HistNew({"lo", "hi"})

Mbc5WriteLow == BusWrite({\h2000, \h2FFF}, Byte)

Mbc5WriteHigh == BusWrite({\h3000, \h3FFF}, {\h00, \h01, \hFE})

Mbc5Read == BusRead({\h4000, \h7FFF})

SpecMbc5 == InitMbc5 /\ [][Mbc5WriteLow \/ Mbc5WriteHigh \/ Mbc5Read]_vars

---------------------------------------------------------------------------
(* SpecRam: an MBC1, MBC3 or MBC5 cartridge with 32 KiB of RAM receives    *)
(* RAM-enable, bank-select and mode writes, and reads and writes of the    *)
(* external RAM window 0xA000-0xBFFF.                                      *)

InitRam ==
    \E rom \in [len : {\h8000}, type_byte : {\h03, \h13, \h1B}, ram_byte : {\h03},
                seed : {\h35}, code : {EmptyArray}] :
        /\ cpu = CpuNew
        /\ mmu = MmuNew(CartridgeLoad(rom), FALSE)
        /\ obs = NoObs
        /\ hist = HistNew({"enable"})

RamCtlWrite == BusWrite({\h0000, \h1FFF, \h4000, \h6000}, {\h00, \h01, \h0A, \h0B, \h1A})

RamWrite == BusWrite({\hA000, \hBFFF}, {\h00, \h5C})

RamRead == BusRead({\hA000, \hBFFF})

SpecRam == InitRam /\ [][RamCtlWrite \/ RamWrite \/ RamRead]_vars

---------------------------------------------------------------------------
(* SpecCpu: the emulation loop of main.rs runs a program from a 32 KiB     *)
(* ROM-only image.  The program sits at the entry point 0x0100 and ends in *)
(* a JR loop; the five interrupt vectors hold one-instruction handlers.    *)
(* Between two CPU steps the rest of the loop may raise an interrupt       *)
(* request: the timer, the LCD STAT line, the joypad and the end of frame. *)
(* obs keeps what the last step did: its kind, the cycles it returned, the *)
(* opcode it fetched, and whether the CPU was halted and an enabled        *)
(* interrupt pending when it began.                                        *)

\* bytes laid out from address base
CodeAt(base, bytes) == [i \in base..(base + Len(bytes) - 1) |-> bytes[i - base + 1]]

\* RETI at the VBlank, STAT, timer and serial vectors, RET at the joypad's
Handlers ==
    (\h40 :> \hD9) @@ (\h48 :> \hD9) @@ (\h50 :> \hD9) @@ (\h58 :> \hD9)
        @@ (\h60 :> \hC9)

\* JR -2
Loop == <<\h18, \hFE>>

CpuRoms ==
    LET \* LD A,ie ; LDH (0xFF),A ; LD A,iflag ; LDH (0x0F),A
        Setup(ie, iflag) == <<\h3E, ie, \hE0, \hFF, \h3E, iflag, \hE0, \h0F>>
        \* EI;DI / EI;NOP / HALT / EI;HALT / EI;NOP;HALT / DI;HALT;HALT / STOP /
        \* LD A,1;LDH (0x4D),A;STOP (speed switch armed) / each opcode execute
        \* does not know
        ControlBodies ==
            { <<\hFB, \hF3, \h00>>,
              <<\hFB, \h00, \h00>>,
              <<\h76, \h00>>,
              <<\hFB, \h76, \h00>>,
              <<\hFB, \h00, \h76, \h00>>,
              <<\hF3, \h76, \h76, \h00>>,
              <<\h10, \h00, \h00>>,
              <<\h3E, \h01, \hE0, \h4D, \h10, \h00, \h00>> }
                \cup { <<opcode, \h00>> : opcode \in UnknownOpcodes }
        \* LD A,opcode ; LDH (0xFF),A ; LD B,0xFF ; LD C,0xFF ; PUSH BC ; RET:
        \* the opcode is stored in IE and fetched from 0xFFFF
        AtTopOfMemory(opcode) ==
            <<\h3E, opcode, \hE0, \hFF, \h06, \hFF, \h0E, \hFF, \hC5, \hC9>>
        FlagOperands == {\h00, \h0F, \hFF}
        \* LD B,x ; LD C,y ; PUSH BC ; POP AF ; then every ALU instruction of
        \* execute_alu_n and execute_alu_a ; PUSH AF ; POP BC ; LDH A,(0x0F)
        FlagBody(x, y) ==
            <<\hFB, \h06, x, \h0E, y, \hC5, \hF1,
              \hC6, y, \hCE, x, \h27, \hD6, y, \hDE, x, \h27,
              \hE6, x, \hEE, y, \hF6, x, \hFE, y,
              \h3C, \h3D, \h2F, \h3F, \h37, \h07, \h17, \h0F, \h1F,
              \hF5, \hC1, \hF0, \h0F>>
        Programs ==
            { Setup(ie, iflag) \o body \o Loop :
                  ie \in {\h00, \h0A, \hFF}, iflag \in {\h00, \h1F}, body \in ControlBodies }
            \cup { Setup(\h05, \h00) \o FlagBody(x, y) \o Loop :
                  x \in FlagOperands, y \in FlagOperands }
    IN  { [len |-> \h8000, type_byte |-> \h00, ram_byte |-> \h00, seed |-> \h35,
           code |-> Handlers @@ CodeAt(\h0100, program)] : program \in Programs }
        \cup { [len |-> \h8000, type_byte |-> \h00, ram_byte |-> \h00, seed |-> \h35,
                code |-> Handlers @@ CodeAt(\h0000, Loop)
                            @@ CodeAt(\h0100, AtTopOfMemory(opcode))] :
                    opcode \in {\hD3, \hFD} }

InitCpu ==
    \E rom \in CpuRoms :
        /\ cpu = CpuNew
        /\ mmu = MmuNew(CartridgeLoad(rom), FALSE)
        /\ obs = [op |-> "none", kind |-> "none", cycles |-> 0, opcode |-> -1,
                  halted0 |-> FALSE, pending0 |-> FALSE]
        /\ hist = <<>>

\* the `_` arm of execute logs self.registers.pc - 1: with PC wrapped to 0
\* the subtraction overflows, which panics in a build with overflow checks
\* and wraps in one without
log_overflows(s) ==
    s.kind = "exec" /\ s.opcode \in UnknownOpcodes /\ s.cpu.registers.pc = 0

\* let cycles = cpu.step(&mut mmu); a step that panics leaves kind "abort"
\* and nothing runs after it
CpuStep ==
    /\ obs.kind # "abort"
    /\ \E s \in {step(cpu, mmu)} :
       \E panics \in (IF log_overflows(s) THEN BOOLEAN ELSE {FALSE}) :
        /\ cpu' = s.cpu
        /\ mmu' = s.mmu
        /\ obs' = [op |-> "step", kind |-> IF panics THEN "abort" ELSE s.kind,
                   cycles |-> s.cycles,
                   opcode |-> s.opcode, halted0 |-> cpu.halted,
                   pending0 |-> Triggered(mmu) # 0]
        /\ UNCHANGED hist

\* mmu.if_reg |= 1 << bit, as main's loop and Mmu::step do for VBlank
\* (bit 0), LCD STAT (bit 1), the timer (bit 2) and the joypad (bit 4)
RequestInterrupt ==
    \E bit \in {0, 1, 2, 4} :
        /\ obs.kind # "abort"
        /\ BitAnd(mmu.if_reg, Shl(1, bit)) = 0
        /\ mmu' = [mmu EXCEPT !.if_reg = BitOr(@, Shl(1, bit))]
        /\ UNCHANGED <<cpu, obs, hist>>

SpecCpu == InitCpu /\ [][CpuStep \/ RequestInterrupt]_vars

---------------------------------------------------------------------------
(* SpecStack: push_stack and pop_stack from a stack pointer that LD SP,nn  *)
(* has set anywhere around work RAM and high RAM, on a ROM-only cartridge. *)
(* hist keeps the starting SP and the values pushed and not yet popped;    *)
(* obs keeps the last operation, the value it pushed or returned and, for  *)
(* a pop, the value its matching push was given.                           *)

MaxDepth == 2

InitStack ==
    \E rom \in { [len |-> \h8000, type_byte |-> \h00, ram_byte |-> \h00, seed |-> \h35,
                  code |-> EmptyArray] },
       sp \in {\hC000, \hC001, \hC002, \hD000, \hDFFF, \hE000,
               \hFF80, \hFF81, \hFF82, \hFFFE, \hFFFF} :
        /\ cpu = [CpuNew EXCEPT !.registers.sp = sp]
        /\ mmu = MmuNew(CartridgeLoad(rom), FALSE)
        /\ obs = [op |-> "none", value |-> 0, expected |-> 0]
        /\ hist = [sp0 |-> sp, pushed |-> <<>>]

PushOp ==
    \E value \in {\h1234, \h00A5, \hFFFF} :
        /\ Len(hist.pushed) < MaxDepth
        /\ LET s == push_stack(cpu, mmu, value)
           IN  cpu' = s.cpu /\ mmu' = s.mmu
        /\ obs' = [op |-> "push", value |-> value, expected |-> value]
        /\ hist' = [hist EXCEPT !.pushed = Append(@, value)]

PopOp ==
    /\ Len(hist.pushed) > 0
    /\ LET v == pop_stack(cpu, mmu)
       IN  /\ cpu' = v.cpu
           /\ obs' = [op |-> "pop", value |-> v.value,
                      expected |-> hist.pushed[Len(hist.pushed)]]
    /\ hist' = [hist EXCEPT !.pushed = SubSeq(@, 1, Len(@) - 1)]
    /\ UNCHANGED mmu

SpecStack == InitStack /\ [][PushOp \/ PopOp]_vars

---------------------------------------------------------------------------
(* SpecFrame: main's frame loop runs a program from a 32 KiB ROM-only      *)
(* image: each iteration steps the CPU, feeds the cycles it returns to     *)
(* Mmu::step (the timer) and Ppu::step, collects the STAT interrupt and,   *)
(* when the inner loop ends, raises VBlank and starts the next frame.  The *)
(* programs set up the LCD, STAT, LYC and timer registers and then loop;   *)
(* some switch the LCD off and on from interrupt handlers.  No key is      *)
(* pressed.                                                                *)
(* hist keeps main's cycles_this_frame and what the claims measure: the    *)
(* cycles run in all, the cycles fed to the PPU since the LCD was last     *)
(* off, the cycles fed to the timer since the last write to DIV (-1: no    *)
(* write yet), and for TIMA the value, the accumulator and the enabled     *)
(* cycles since TIMA, TMA or TAC last changed.  obs keeps what the last    *)
(* iteration did.                                                          *)

MaxCycles == 72000

FramePrograms ==
    LET \* LD A,value ; LDH (reg),A
        Poke(reg, value) == <<\h3E, value, \hE0, reg>>
        \* NOP ; PUSH BC ; POP BC ; JR -5
        MixedLoop == <<\h00, \hC5, \hC1, \h18, \hFB>>
        \* NOP ; PUSH BC ; POP BC
        Work == <<\h00, \hC5, \hC1>>
        \* LCD off and on again with background and sprites disabled, so that
        \* a frame starts at line 0
        Restart == Poke(\h40, \h10) \o Poke(\h40, \h90)
        plain(main) == [main |-> main, handlers |-> Handlers]
        \* STAT handler: LCD off ; timer handler: LCD on
        toggling(main) ==
            [main |-> main,
             handlers |-> CodeAt(\h40, <<\hD9>>)
                              @@ CodeAt(\h48, Poke(\h40, \h10) \o <<\hD9>>)
                              @@ CodeAt(\h50, Poke(\h40, \h90) \o <<\hD9>>)]
    IN  { plain(Loop), plain(MixedLoop) }
        \cup { plain(Restart \o Poke(\h45, sl[2]) \o Poke(\h41, sl[1]) \o Loop) :
                 sl \in { <<\h08, \h00>>, <<\h10, \h00>>, <<\h20, \h00>>, <<\h40, \h00>>,
                          <<\h40, \h90>>, <<\h40, \h99>>, <<\h40, \h9A>>,
                          <<\h78, \h90>> } }
        \cup { plain(Restart \o Poke(\h45, \h00) \o Poke(\h41, \h78) \o Poke(\hFF, \h03)
                         \o <<\hFB>> \o MixedLoop) }
        \cup { toggling(Poke(\h45, lyc) \o Poke(\h41, \h40) \o Poke(\h07, \h05)
                            \o Poke(\hFF, \h06) \o <<\hFB>> \o Loop) :
                 lyc \in {\h46, \h96} }
        \cup { plain(Poke(\h06, \h80) \o Poke(\h05, \hFE) \o Poke(\h07, tac)
                         \o <<\h00, \h00>> \o Loop) : tac \in {\h04, \h05, \h06, \h07} }
        \cup { plain(Poke(\h06, \hFF) \o Poke(\h07, \h04) \o Work \o Work \o Work
                         \o Poke(\h04, \h00) \o Poke(\h07, \h05) \o Work
                         \o Poke(\h04, \h00) \o Loop) }

InitFrame ==
    \E program \in FramePrograms :
        /\ cpu = CpuNew
        /\ mmu = MmuNew(CartridgeLoad([len |-> \h8000, type_byte |-> \h00, ram_byte |-> \h00,
                                       seed |-> \h35,
                                       code |-> program.handlers
                                                    @@ CodeAt(\h0100, program.main)]),
                        FALSE)
        /\ obs = [op |-> "none", kind |-> "none", cycles |-> 0, opcode |-> -1,
                  if_cpu |-> 0, stat_interrupt |-> FALSE,
                  frame_ready |-> FALSE]
        /\ hist = [cycles_this_frame |-> 0, total |-> 0, fed |-> 0, since_div |-> -1,
                   tima0 |-> 0, base |-> 0, run |-> 0]

\* main, lines 90-115: one iteration of the inner loop and, when the loop
\* ends with it, the end of the frame and the start of the next one; the
\* run is cut off after `limit` cycles
FrameIteration(limit) ==
    /\ hist.total < limit
    /\ \E s \in {step(cpu, mmu)} :
       \E m1 \in {mmu_step(s.mmu, s.cycles)} :
       \E p \in {ppu_step(m1.ppu, s.cycles)} :
       LET m2 == [m1 EXCEPT !.ppu = p,
                            !.if_reg = BitOr(IF p.stat_interrupt THEN BitOr(@, \h02) ELSE @,
                                             IF m1.joypad.interrupt_requested
                                             THEN \h10 ELSE 0),
                            !.joypad.interrupt_requested = FALSE]
           cycles_this_frame == hist.cycles_this_frame + s.cycles
           ends == p.frame_ready \/ cycles_this_frame >= 80000
           m3 == IF p.frame_ready THEN [m2 EXCEPT !.if_reg = BitOr(@, \h01)] ELSE m2
           wrote_div == s.kind = "exec" /\ s.opcode = \hE0
                            /\ read_byte(mmu, WrappingAdd16(cpu.registers.pc, 1)) = \h04
           retimed == <<s.mmu.timer.tima, s.mmu.timer.tma, s.mmu.timer.tac>>
                          # <<mmu.timer.tima, mmu.timer.tma, mmu.timer.tac>>
           enabled == BitAnd(s.mmu.timer.tac, \h04) # 0
       IN  /\ cpu' = s.cpu
           /\ mmu' = IF ends THEN [m3 EXCEPT !.ppu.frame_ready = FALSE] ELSE m2
           /\ obs' = [op |-> "step", kind |-> s.kind, cycles |-> s.cycles,
                      opcode |-> s.opcode, if_cpu |-> s.mmu.if_reg,
                      stat_interrupt |-> p.stat_interrupt,
                      frame_ready |-> p.frame_ready]
           /\ hist' = [cycles_this_frame |-> IF ends THEN 0 ELSE cycles_this_frame,
                       total |-> hist.total + s.cycles,
                       fed |-> IF BitAnd(s.mmu.ppu.lcdc, \h80) = 0 THEN 0
                               ELSE hist.fed + s.cycles,
                       since_div |-> IF wrote_div THEN s.cycles
                                     ELSE IF hist.since_div < 0 THEN -1
                                     ELSE hist.since_div + s.cycles,
                       tima0 |-> IF retimed THEN s.mmu.timer.tima ELSE hist.tima0,
                       base |-> IF retimed THEN s.mmu.timer.tima_cycles ELSE hist.base,
                       run |-> (IF retimed THEN 0 ELSE hist.run)
                                   + (IF enabled THEN s.cycles ELSE 0)]

FrameStep == FrameIteration(MaxCycles)

SpecFrame == InitFrame /\ [][FrameStep]_vars

---------------------------------------------------------------------------
(* SpecLoopFair: the frame loop of SpecFrame for programs that never reach *)
(* the end of a frame through the PPU, run past the cycle cap of the inner *)
(* loop: the LCD is switched off and the program loops, or halts with no   *)
(* interrupt enabled; a third program loops with the LCD on.  main runs    *)
(* its loop on one thread with nothing to wait for inside an iteration, so *)
(* an iteration that can run does run (weak fairness).                     *)

MaxLoopCycles == 80100

InitLoop ==
    \E main \in { <<\h3E, \h00, \hE0, \h40>> \o Loop,
                   <<\h3E, \h00, \hE0, \h40, \h76>>,
                   <<\h3E, \h10, \hE0, \h40, \h3E, \h90, \hE0, \h40>> \o Loop } :
        /\ cpu = CpuNew
        /\ mmu = MmuNew(CartridgeLoad([len |-> \h8000, type_byte |-> \h00, ram_byte |-> \h00,
                                       seed |-> \h35,
                                       code |-> Handlers @@ CodeAt(\h0100, main)]),
                        FALSE)
        /\ obs = [op |-> "none", kind |-> "none", cycles |-> 0, opcode |-> -1,
                  if_cpu |-> 0, stat_interrupt |-> FALSE,
                  frame_ready |-> FALSE]
        /\ hist = [cycles_this_frame |-> 0, total |-> 0, fed |-> 0, since_div |-> -1,
                   tima0 |-> 0, base |-> 0, run |-> 0]

LoopStep == FrameIteration(MaxLoopCycles)

SpecLoopFair == InitLoop /\ [][LoopStep]_vars /\ WF_vars(LoopStep)

---------------------------------------------------------------------------
(* SpecSprite: the PPU draws the first lines of a frame over a sprite      *)
(* scene.  With the LCD off the program has written four tiles (tile 0:    *)
(* colour 1 in the left half; tiles 1 and 2: colours 1 and 2 everywhere;   *)
(* tile 3: colour 3 in the right half), the palettes and a list of OAM     *)
(* entries and has switched the LCD on.  Ppu::step is then fed 12 cycles   *)
(* at a time.  The scenes are rows of 10 to 12 sprites on the same lines,  *)
(* one of them possibly hidden by X = 0, X = 168 or Y = 0, and groups of   *)
(* two to four sprites, overlapping or at the screen edges.  hist counts   *)
(* the lines rendered.                                                     *)

MaxLines == 3

InitSprite ==
    LET tile_byte(n, k) ==
            CASE n = 0 -> IF k % 2 = 0 THEN \hF0 ELSE \h00
              [] n = 1 -> IF k % 2 = 0 THEN \hFF ELSE \h00
              [] n = 2 -> IF k % 2 = 0 THEN \h00 ELSE \hFF
              [] n = 3 -> \h0F
        vram == [a \in {<<0, 16 * n + k>> : n \in 0..3, k \in 0..15} |->
                    tile_byte(a[2] \div 16, a[2] % 16)]
        oam(list) == [a \in 0..(4 * Len(list) - 1) |-> list[(a \div 4) + 1][(a % 4) + 1]]
        sparse(f, fill) == [a \in {b \in DOMAIN f : f[b] # fill} |-> f[a]]
        row(n, at, y, x) ==
            [i \in 1..n |-> IF i - 1 = at THEN <<y, x, \h01, \h00>>
                            ELSE <<17, 8 + 12 * (i - 1), \h01, \h00>>]
        rows == { row(n, at, yx[1], yx[2]) :
                    n \in 10..12, at \in {0, 4}, yx \in {<<17, 0>>, <<17, 168>>, <<0, 20>>} }
                    \cup { row(n, -1, 0, 0) : n \in 10..12 }
        groups ==
            { << <<17, 20, \h01, \h00>>, <<17, 20, \h02, \h00>> >>,
              << <<17, 20, \h02, \h10>>, <<17, 20, \h03, \h00>> >>,
              << <<17, 20, \h01, \h00>>, <<17, 24, \h02, \h00>> >>,
              << <<17, 24, \h01, \h00>>, <<17, 20, \h02, \h00>> >>,
              << <<17, 24, \h03, \h20>>, <<17, 20, \h03, \h00>> >>,
              << <<17, 20, \h01, \h00>>, <<17, 20, \h02, \h00>>, <<17, 16, \h03, \h00>> >>,
              << <<17, 20, \h01, \h80>>, <<17, 22, \h02, \h00>> >>,
              << <<17, 22, \h01, \h00>>, <<17, 20, \h02, \h80>> >>,
              << <<9, 20, \h02, \h00>>, <<17, 18, \h01, \h00>> >>,
              << <<17, 4, \h02, \h00>>, <<17, 1, \h01, \h00>>, <<17, 164, \h02, \h40>>,
                 <<17, 167, \h01, \h00>> >> }
        cartridge == CartridgeLoad([len |-> \h8000, type_byte |-> \h00, ram_byte |-> \h00,
                                    seed |-> \h35, code |-> EmptyArray])
        off == ppu_step([PpuNew(FALSE) EXCEPT !.lcdc = \h11], 12)
    IN  \E scene \in rows \cup groups, lcdc \in {\h82, \h86, \h93, \h97} :
            /\ cpu = CpuNew
            /\ mmu = [MmuNew(cartridge, FALSE) EXCEPT
                          !.ppu = [off EXCEPT !.vram = sparse(vram, \h00),
                                              !.oam = sparse(oam(scene), \hFF),
                                              !.bgp = \hE4, !.obp0 = \hE4, !.obp1 = \h1B,
                                              !.lcdc = lcdc]]
            /\ obs = NoObs
            /\ hist = [lines |-> 0]

\* one call of Ppu::step from the frame loop
SpriteStep ==
    /\ hist.lines < MaxLines
    /\ \E p \in {ppu_step(mmu.ppu, 12)} :
           /\ mmu' = [mmu EXCEPT !.ppu = p]
           /\ hist' = [lines |-> IF mmu.ppu.stat % 4 = 3 /\ p.stat % 4 = 0
                                 THEN hist.lines + 1 ELSE hist.lines]
    /\ UNCHANGED <<cpu, obs>>

SpecSprite == InitSprite /\ [][SpriteStep]_vars

---------------------------------------------------------------------------
(* SpecSave: a cartridge with 8 or 32 KiB of RAM, with and without a       *)
(* battery, is written through the bus, saved by main (the auto-save and   *)
(* the save on exit) and loaded again by the next run of the emulator.     *)
(* hist keeps the save file on disk and the number of runs started so far. *)

MaxLoads == 1

InitSave ==
    \E rom \in [len : {\h8000}, type_byte : {\h01, \h03, \h13, \h1B},
                ram_byte : {\h02, \h03}, seed : {\h35}, code : {EmptyArray}] :
        /\ cpu = CpuNew
        /\ mmu = MmuNew(load(rom, NoFile), FALSE)
        /\ obs = NoObs
        /\ hist = [file |-> NoFile, loads |-> 0]

\* RAM-enable writes and writes into the RAM window
SaveBusWrite ==
    \E address \in {\h0000, \hA000, \hBFFF}, value \in {\h0A, \h5C} :
        /\ mmu' = write_byte(mmu, address, value)
        /\ obs' = [op |-> "write", address |-> address, result |-> 0]
        /\ UNCHANGED <<cpu, hist>>

\* mmu.cartridge.save()
SaveOp ==
    /\ hist' = [hist EXCEPT !.file = save(mmu.cartridge, @)]
    /\ obs' = [op |-> "save", address |-> 0, result |-> 0]
    /\ UNCHANGED <<cpu, mmu>>

\* the emulator is started again on the same ROM path
LoadOp ==
    /\ hist.loads < MaxLoads
    /\ cpu' = CpuNew
    /\ mmu' = MmuNew(load(mmu.cartridge.rom, hist.file), FALSE)
    /\ obs' = [op |-> "load", address |-> 0, result |-> 0]
    /\ hist' = [hist EXCEPT !.loads = @ + 1]

SpecSave == InitSave /\ [][SaveBusWrite \/ SaveOp \/ LoadOp]_vars



---------------------------------------------------------------------------
(* Claims about the bank controllers, checked under SpecBank, SpecMbc5     *)
(* and SpecRam.                                                            *)

cart == mmu.cartridge

\* the byte a read of file offset i of the ROM image must give: the image's
\* byte, or 0xFF past its end
ImageAt(rom, i) == IF i < rom.len THEN RomByte(rom, i) ELSE \hFF

LastWriteIn(w) == obs.op = "write" /\ obs.address \in Window(w)

ReadIn(lo, hi) == obs.op = "read" /\ obs.address \in lo..hi

\* C6: on MBC1, in any controller state, right after a write to 0x2000-0x3FFF
\* of a value whose low 5 bits are 0, the effective switchable ROM bank is 1.
C6_Mbc1ZeroLowYieldsBank1 ==
    (cart.cart_type = "Mbc1" /\ LastWriteIn("low") /\ hist["low"] % 32 = 0)
        => rom_bank(cart) = 1

\* C7: on MBC1 and MBC3, after any sequence of writes to 0x0000-0x7FFF, the
\* effective ROM bank of the switchable window is never 0: rom_bank is not 0
\* and a read of 0x4000+o returns the byte some bank b >= 1 holds at o.
C7_RomBankNeverZero ==
    cart.cart_type \in {"Mbc1", "Mbc3"} =>
        /\ rom_bank(cart) # 0
        /\ ReadIn(\h4000, \h7FFF) =>
               \E b \in 1..127 :
                   obs.result = ImageAt(cart.rom, b * \h4000 + (obs.address - \h4000))

C7_Witness ==
    /\ cart.cart_type \in {"Mbc1", "Mbc3"}
    /\ hist["low"] \in {\h00, \h80} /\ hist["upper"] = \h00
    /\ ReadIn(\h4000, \h7FFF)
    /\ obs.result = ImageAt(cart.rom, \h4000 + (obs.address - \h4000))

\* C8: on MBC5, once lo has been written to 0x2000-0x2FFF and hi to
\* 0x3000-0x3FFF, in either order, the switchable bank is ((hi & 1) << 8) | lo
\* for all 512 values, bank 0 included, and a read of 0x4000+o returns the
\* image byte at that bank's offset o (0xFF past the end of the image).
C8_SelectedBank == (hist["hi"] % 2) * 256 + hist["lo"]

C8_Mbc5NineBitBank ==
    (cart.cart_type = "Mbc5" /\ hist["lo"] # -1 /\ hist["hi"] # -1) =>
        /\ rom_bank(cart) = C8_SelectedBank
        /\ ReadIn(\h4000, \h7FFF) =>
               obs.result =
                   ImageAt(cart.rom, C8_SelectedBank * \h4000 + (obs.address - \h4000))

C8_Witness ==
    /\ cart.cart_type = "Mbc5" /\ cart.rom.len = \h800000
    /\ hist["lo"] = \h00 /\ hist["hi"] = \h00
    /\ rom_bank(cart) = 0
    /\ obs = [op |-> "read", address |-> \h7FFF,
              result |-> RomByte(cart.rom, \h3FFF)]

\* C9: on MBC1 in ROM banking mode, once the low 5 bits (non-zero) and the
\* upper 2 bits of bank b have been written, a read of 0x4000+o returns the
\* ROM byte at file offset b*0x4000+o, or 0xFF past the end of the image; a
\* read of 0x0000-0x3FFF returns the ROM byte at the same file offset.
C9_SelectedBank == (hist["upper"] % 4) * 32 + (hist["low"] % 32)

C9_Mbc1RomModeRead ==
    (cart.cart_type = "Mbc1" /\ cart.bank_mode = "Rom" /\ obs.op = "read") =>
        /\ (hist["low"] # -1 /\ hist["upper"] # -1 /\ hist["low"] % 32 # 0
              /\ obs.address \in \h4000..\h7FFF)
             => obs.result =
                  ImageAt(cart.rom, C9_SelectedBank * \h4000 + (obs.address - \h4000))
        /\ obs.address \in \h0000..\h3FFF
             => obs.result = ImageAt(cart.rom, obs.address)

C9_Witness ==
    /\ cart.cart_type = "Mbc1" /\ cart.bank_mode = "Rom"
    /\ hist["low"] = \h02 /\ hist["upper"] = \hE3
    /\ obs = [op |-> "read", address |-> \h4001,
              result |-> RomByte(cart.rom, \h62 * \h4000 + 1)]
    /\ cart.rom.len = \h800000

\* C10: on MBC1, MBC3 and MBC5 the RAM-enable latch is set exactly when the
\* most recent write to 0x0000-0x1FFF had low nibble 0xA; while it is clear a
\* read of 0xA000-0xBFFF returns 0xFF and a write to 0xA000-0xBFFF leaves
\* every byte of cartridge RAM unchanged.
C10_LatchFollowsLastWrite ==
    cart.ram_enabled <=> (hist["enable"] # -1 /\ hist["enable"] % 16 = \h0A)

C10_DisabledReadsFF ==
    (~cart.ram_enabled /\ ReadIn(\hA000, \hBFFF)) => obs.result = \hFF

C10_DisabledWriteDropped ==
    (~cart.ram_enabled /\ obs'.op = "write" /\ obs'.address \in \hA000..\hBFFF)
        => mmu'.cartridge.ram = cart.ram

C10_RamEnableLatch ==
    /\ [](cart.cart_type \in {"Mbc1", "Mbc3", "Mbc5"} =>
            C10_LatchFollowsLastWrite /\ C10_DisabledReadsFF)
    /\ [][cart.cart_type \in {"Mbc1", "Mbc3", "Mbc5"} => C10_DisabledWriteDropped]_vars

C10_Witness ==
    /\ cart.cart_type \in {"Mbc1", "Mbc3", "Mbc5"}
    /\ hist["enable"] = \h0B /\ ~cart.ram_enabled
    /\ Load(cart.ram.bytes, 0, 0) = \h5C
    /\ ram_bank(cart) = 0
    /\ obs = [op |-> "read", address |-> \hA000, result |-> \hFF]

---------------------------------------------------------------------------
(* Claims about Cpu::step, checked under SpecCpu.                          *)

\* number of the lowest set bit of x
LowestBit(x) ==
    CHOOSE b \in 0..7 :
        /\ (x \div (2 ^ b)) % 2 = 1
        /\ \A k \in 0..(b - 1) : (x \div (2 ^ k)) % 2 = 0

Pending(m) == BitAnd(m.if_reg, m.ie)

\* C1: a CPU step taken with IME set and a bit of IF & IE pending services
\* the lowest-numbered pending bit b: it clears IME, clears bit b of IF and
\* no other, pushes the current PC (high byte at SP-1, low byte at SP-2),
\* sets PC to 0x40 + 8*b, returns 20 cycles and fetches no opcode.
C1_DispatchStep ==
    LET b == LowestBit(Pending(mmu))
        sp == cpu.registers.sp
        pc == cpu.registers.pc
    IN  /\ b \in 0..4
        /\ ~cpu'.ime
        /\ mmu'.if_reg = mmu.if_reg - 2 ^ b
        /\ cpu'.registers.sp = WrappingSub16(sp, 2)
        /\ read_byte(mmu', WrappingSub16(sp, 1)) = pc \div 256
        /\ read_byte(mmu', WrappingSub16(sp, 2)) = pc % 256
        /\ cpu'.registers.pc = \h40 + 8 * b
        /\ obs'.kind = "dispatch" /\ obs'.cycles = 20 /\ obs'.opcode = -1

C1_LowestPendingServiced ==
    [][(CpuStep /\ cpu.ime /\ Pending(mmu) # 0) => C1_DispatchStep]_vars

\* the serial interrupt is serviced once VBlank, STAT and timer have been,
\* with the joypad request still waiting
C1_Witness ==
    /\ obs.kind = "dispatch" /\ obs.cycles = 20
    /\ cpu.registers.pc = \h58 /\ ~cpu.ime
    /\ mmu.ie = \hFF /\ mmu.if_reg = \h10

\* C2: when EI executes while an enabled interrupt is already pending, the
\* step after it executes the instruction that follows EI; it does not
\* dispatch the interrupt (so EI immediately followed by DI dispatches none).
C2_EiDelaysOneInstruction ==
    [][(CpuStep /\ obs.kind = "exec" /\ obs.opcode = \hFB /\ obs.pending0)
          => obs'.kind = "exec"]_vars

\* C3: a step of a halted CPU with no bit of IF & IE pending returns 4
\* cycles, fetches no opcode and leaves PC unchanged; the first step with a
\* bit pending clears the halt flag whether or not IME is set, and resumes:
\* by dispatch if IME is set (or its enable is due), else at the next opcode.
C3_HaltedStep ==
    IF Pending(mmu) = 0
    THEN /\ obs'.kind = "halt" /\ obs'.cycles = 4 /\ obs'.opcode = -1
         /\ cpu'.registers.pc = cpu.registers.pc
         /\ cpu'.halted
    ELSE IF cpu.ime \/ cpu.ime_scheduled
    THEN obs'.kind = "dispatch" /\ ~cpu'.halted
    ELSE /\ obs'.kind = "exec"
         /\ obs'.opcode = read_byte(mmu, cpu.registers.pc)
         /\ cpu'.halted => obs'.opcode \in {\h76, \h10}

C3_HaltIdlesUntilPending ==
    [][(CpuStep /\ cpu.halted) => C3_HaltedStep]_vars

\* a halted CPU with IME clear was woken and executed the NOP after HALT
C3_Witness ==
    /\ obs.halted0 /\ obs.pending0
    /\ obs.kind = "exec" /\ obs.opcode = \h00
    /\ ~cpu.ime /\ ~cpu.halted

\* C5: the low nibble of F is zero in every reachable CPU state.
C5_FlagsLowNibbleZero == cpu.registers.f % 16 = 0

\* POP AF has just loaded the stack word 0xFFFF
C5_Witness ==
    /\ obs.kind = "exec" /\ obs.opcode = \hF1
    /\ cpu.registers.a = \hFF /\ cpu.registers.f = \hF0
    /\ read_byte(mmu, WrappingSub16(cpu.registers.sp, 2)) = \hFF

---------------------------------------------------------------------------
(* Claims about push_stack and pop_stack, checked under SpecStack.         *)

\* work RAM 0xC000-0xDFFF and high RAM 0xFF80-0xFFFE
InRam(address) == address \in (\hC000..\hDFFF) \cup (\hFF80..\hFFFE)

\* addresses compared before and after a push: around every region edge a
\* stack slot can touch, IF, IE, ROM and cartridge RAM (the echo of work RAM
\* at 0xE000-0xFDFF is the same storage as 0xC000-0xDDFF and is left out)
StackProbes ==
    {\h0000, \h4000, \hA000, \hBFFE, \hBFFF, \hC000, \hC001, \hC002, \hC003,
     \hCFFE, \hCFFF, \hD000, \hD001, \hDFFB, \hDFFC, \hDFFD, \hDFFE, \hDFFF,
     \hFF0F, \hFF7C, \hFF7D, \hFF7E, \hFF7F, \hFF80, \hFF81, \hFF82, \hFF83,
     \hFFFA, \hFFFB, \hFFFC, \hFFFD, \hFFFE, \hFFFF}

\* the state half of the push/pop law, for pushes made from a stack pointer
\* that satisfies Pre: the pop matching a push returns the pushed value, a
\* push leaves the high byte at SP-1 and the low byte at SP-2, and SP is the
\* starting SP minus two per value still pushed (so a balanced sequence
\* ends at the starting SP)
PushPopLaw(Pre(_)) ==
    LET sp == cpu.registers.sp
    IN  /\ (obs.op = "pop" /\ Pre(sp)) => obs.value = obs.expected
        /\ (obs.op = "push" /\ Pre(WrappingAdd16(sp, 2))) =>
               /\ read_byte(mmu, WrappingAdd16(sp, 1)) = obs.value \div 256
               /\ read_byte(mmu, sp) = obs.value % 256
        /\ sp = WrappingSub16(hist.sp0, 2 * Len(hist.pushed))

\* the step half: a push changes no location but its two slots, a pop none
PushPopFrame(Pre(_)) ==
    LET sp == cpu.registers.sp
    IN  /\ (PushOp /\ Pre(sp)) =>
               \A a \in StackProbes \ {WrappingSub16(sp, 1), WrappingSub16(sp, 2)} :
                   read_byte(mmu', a) = read_byte(mmu, a)
        /\ PopOp => \A a \in StackProbes : read_byte(mmu', a) = read_byte(mmu, a)

\* both stack slots of a push made at sp lie in work RAM or high RAM
SlotsInRam(sp) == InRam(WrappingSub16(sp, 1)) /\ InRam(WrappingSub16(sp, 2))

\* C4, as stated: for any value and any SP pointing into work RAM or HRAM, a
\* push followed by a pop returns the value and restores SP; the push writes
\* the high byte at SP-1 and the low byte at SP-2 and changes no other
\* location; a balanced sequence of pushes and pops leaves SP where it was.
C4_PushPopAnyRamSp == [](PushPopLaw(InRam)) /\ [][PushPopFrame(InRam)]_vars

\* C4, amended: the same law for any SP whose two stack slots SP-1 and SP-2
\* both lie in work RAM or HRAM.
C4_PushPopSlotsInRam == [](PushPopLaw(SlotsInRam)) /\ [][PushPopFrame(SlotsInRam)]_vars

\* push 0x1234 at SP = 0xFFFE, then pop: 0x1234 comes back, SP is 0xFFFE
\* again, and 0xFFFC, 0xFFFD hold 0x34, 0x12
C4_Witness ==
    /\ obs = [op |-> "pop", value |-> \h1234, expected |-> \h1234]
    /\ hist.sp0 = \hFFFE /\ hist.pushed = <<>>
    /\ cpu.registers.sp = \hFFFE
    /\ read_byte(mmu, \hFFFC) = \h34 /\ read_byte(mmu, \hFFFD) = \h12

---------------------------------------------------------------------------
(* Claims about the battery save file, checked under SpecSave.             *)

\* C11: for a battery-backed cartridge, after cartridge RAM was written and
\* saved and the cartridge is loaded again from the same ROM path, the
\* loaded RAM image has the length of the saved one and equals it byte for
\* byte.
C11_SaveRoundTrip ==
    (obs.op = "load" /\ hist.file.exists) =>
        /\ cart.ram.len = hist.file.len
        /\ \A k \in DOMAIN cart.ram.bytes \cup DOMAIN hist.file.bytes :
               Load(cart.ram.bytes, k, 0) = Load(hist.file.bytes, k, 0)

---------------------------------------------------------------------------
(* Claims about the timer and the PPU in the frame loop, checked under     *)
(* SpecFrame                                                               *)

C13_DivIsUpperByte ==
    (obs.op = "step" /\ hist.since_div >= 0) =>
        read_byte(mmu, \hFF04) = (hist.since_div \div 256) % 256

(* C14: while LCDC bit 7 has stayed set, LY is the number of whole 456-     *)
(* cycle lines in the cycles fed to the PPU since the LCD was last off,     *)
(* counted modulo 154 (70,224 cycles for a full round), whatever the split  *)
(* of the cycles across steps; in particular LY is never above 153 between  *)
(* steps.                                                                   *)
C14_LyPer456Cycles ==
    /\ mmu.ppu.ly <= 153
    /\ (mmu.ppu.lcdc \div 128) % 2 = 1 => mmu.ppu.ly = (hist.fed \div 456) % 154

\* a full round of 154 lines has passed and LY is back at line 0
C14_Witness ==
    /\ BitAnd(mmu.ppu.lcdc, \h80) # 0
    /\ hist.fed >= 70224
    /\ mmu.ppu.ly = 0

(* C15: while the LCD is enabled, the mode in STAT bits 0-1 is 1 exactly   *)
(* when LY is in 144..153, in every state from the post-boot state on and  *)
(* after the LCD is switched off and on; a line 0..143 starts in mode 2    *)
(* (when LY changes or the LCD is switched on) and within the line the     *)
(* mode only goes from 2 to 3 and from 3 to 0.                             *)
C15_ModeFollowsLine ==
    /\ [](BitAnd(mmu.ppu.lcdc, \h80) # 0 =>
              (mmu.ppu.stat % 4 = 1 <=> mmu.ppu.ly \in 144..153))
    /\ [][(BitAnd(mmu'.ppu.lcdc, \h80) # 0 /\ mmu'.ppu.ly < 144) =>
             IF BitAnd(mmu.ppu.lcdc, \h80) = 0 \/ mmu'.ppu.ly # mmu.ppu.ly
             THEN mmu'.ppu.stat % 4 = 2
             ELSE <<mmu.ppu.stat % 4, mmu'.ppu.stat % 4>>
                      \in {<<2, 2>>, <<2, 3>>, <<3, 3>>, <<3, 0>>, <<0, 0>>}]_vars

(* C16: after every iteration in which the PPU changed LY with the LCD on, *)
(* the wrap from 153 to 0 included, STAT bit 2 is set iff the new LY       *)
(* equals LYC, and if they are equal and STAT bit 6 is set the PPU         *)
(* asserted the STAT interrupt in that step.                               *)
C16_CoincidenceAfterLyChange ==
    [][(BitAnd(mmu'.ppu.lcdc, \h80) # 0 /\ mmu'.ppu.ly # mmu.ppu.ly) =>
          /\ (mmu'.ppu.stat \div 4) % 2 = 1 <=> mmu'.ppu.ly = mmu'.ppu.lyc
          /\ (mmu'.ppu.ly = mmu'.ppu.lyc /\ (mmu'.ppu.stat \div 64) % 2 = 1)
                 => obs'.stat_interrupt]_vars

(* C17: in every iteration in which LY advances to 144 with the LCD on,    *)
(* the PPU sets frame-ready and IF bit 0 is set when the iteration is      *)
(* over, before the next CPU step; in every other iteration the loop       *)
(* leaves IF bit 0 as the CPU step left it.                                *)
C17_VBlankPerFrame ==
    [][IF BitAnd(mmu'.ppu.lcdc, \h80) # 0 /\ mmu'.ppu.ly = 144 /\ mmu.ppu.ly # 144
       THEN obs'.frame_ready /\ mmu'.if_reg % 2 = 1
       ELSE mmu'.if_reg % 2 = obs'.if_cpu % 2]_vars

(* C18: when an iteration takes the PPU into mode 0 with STAT bit 3 set,   *)
(* into mode 1 with bit 4 set or into mode 2 with bit 5 set, IF bit 1 is   *)
(* set when the iteration is over, before the next CPU step; when no mode  *)
(* is entered with its bit set and the LY=LYC source (bit 6 with the       *)
(* coincidence flag set by a change of LY) does not fire either, IF bit 1  *)
(* is as the CPU step left it.                                             *)
C18_StatSourcesReachIF ==
    [][LET on == BitAnd(mmu'.ppu.lcdc, \h80) # 0
           stat == mmu'.ppu.stat
           entered(mode) == on /\ stat % 4 = mode /\ mmu.ppu.stat % 4 # mode
           mode_source == \/ entered(0) /\ (stat \div 8) % 2 = 1
                          \/ entered(1) /\ mmu'.ppu.ly = 144 /\ (stat \div 16) % 2 = 1
                          \/ entered(2) /\ (stat \div 32) % 2 = 1
           lyc_source == /\ on /\ mmu'.ppu.ly # mmu.ppu.ly
                         /\ (stat \div 64) % 2 = 1 /\ (stat \div 4) % 2 = 1
       IN  /\ mode_source => (mmu'.if_reg \div 2) % 2 = 1
           /\ ~(mode_source \/ lyc_source) =>
                  (mmu'.if_reg \div 2) % 2 = (obs'.if_cpu \div 2) % 2]_vars

\* the iteration entered mode 0 with only STAT bit 3 set and IF bit 1 is set
C18_Witness ==
    /\ BitAnd(mmu.ppu.lcdc, \h80) # 0
    /\ BitAnd(mmu.ppu.stat, \h7B) = \h08
    /\ obs.stat_interrupt
    /\ BitAnd(obs.if_cpu, \h02) = 0
    /\ BitAnd(mmu.if_reg, \h02) # 0

---------------------------------------------------------------------------
(* Claims about sprite selection and priority, checked under SpecSprite.   *)
(* A step that takes the PPU from mode 3 to mode 0 has rendered line LY.   *)

(* C19: on a rendered line the sprites drawn are those among the first 10  *)
(* OAM entries, in scan order, whose raw Y is not 0 and whose Y range      *)
(* (height 8 or 16 by LCDC bit 2) covers the line, whatever their X: a     *)
(* pixel of the line shows the pixel of one of these entries that is       *)
(* opaque and not hidden by the background there, and where there is none  *)
(* it shows the background, so an 11th or later covering entry is never    *)
(* drawn.                                                                  *)
C19_FirstTenCovering ==
    [][(mmu.ppu.stat % 4 = 3 /\ mmu'.ppu.stat % 4 = 0) =>
          \A p \in {mmu'.ppu}, y \in {mmu.ppu.ly} :
              LET height == IF (p.lcdc \div 4) % 2 = 1 THEN 16 ELSE 8
                  raw_y(i) == Load(p.oam, 4 * i, \hFF)
                  raw_x(i) == Load(p.oam, 4 * i + 1, \hFF)
                  covering == {i \in 0..39 : /\ raw_y(i) # 0
                                             /\ y >= raw_y(i) - 16
                                             /\ y < raw_y(i) - 16 + height}
                  background(x) ==
                      IF p.lcdc % 2 = 1 /\ ~bg_pixel(mmu.ppu, y, x).skip
                      THEN bg_pixel(mmu.ppu, y, x).color
                      ELSE Load(mmu.ppu.framebuffer, y * SCREEN_WIDTH + x, default_color(FALSE))
              IN  \A considered \in {{i \in covering :
                                         Cardinality({j \in covering : j < i}) < 10}} :
                  \A x \in 0..(SCREEN_WIDTH - 1) :
                      LET shown == Load(p.framebuffer, y * SCREEN_WIDTH + x, default_color(FALSE))
                          writers == {i \in considered :
                                         /\ x \in (raw_x(i) - 8)..(raw_x(i) - 1)
                                         /\ x \in DOMAIN sprite_pixels(p, y, i)}
                      IN  IF writers = {} THEN shown = background(x)
                          ELSE \E i \in writers : shown = sprite_pixels(p, y, i)[x]]_vars

(* C20: on a rendered line, at a screen column where two or more of the    *)
(* selected sprites have an opaque pixel not hidden by the background, the *)
(* framebuffer shows the pixel of the one with the lowest X, and among     *)
(* equal X that of the lowest OAM index.                                   *)
C20_LowestXThenIndexWins ==
    [][(mmu.ppu.stat % 4 = 3 /\ mmu'.ppu.stat % 4 = 0) =>
          \A p \in {mmu'.ppu}, y \in {mmu.ppu.ly} :
              LET height == IF (p.lcdc \div 4) % 2 = 1 THEN 16 ELSE 8
                  raw_y(i) == Load(p.oam, 4 * i, \hFF)
                  raw_x(i) == Load(p.oam, 4 * i + 1, \hFF)
                  covering == {i \in 0..39 : /\ raw_y(i) # 0
                                             /\ y >= raw_y(i) - 16
                                             /\ y < raw_y(i) - 16 + height}
              IN  \A selected \in {{i \in covering :
                                       Cardinality({j \in covering : j < i}) < 10}} :
                  \A x \in 0..(SCREEN_WIDTH - 1) :
                      \A writers \in {{i \in selected :
                                          /\ x \in (raw_x(i) - 8)..(raw_x(i) - 1)
                                          /\ x \in DOMAIN sprite_pixels(p, y, i)}} :
                          Cardinality(writers) >= 2 =>
                              \E i \in writers :
                                  /\ \A j \in writers \ {i} :
                                         \/ raw_x(i) < raw_x(j)
                                         \/ raw_x(i) = raw_x(j) /\ i < j
                                  /\ Load(p.framebuffer, y * SCREEN_WIDTH + x,
                                          default_color(FALSE))
                                         = sprite_pixels(p, y, i)[x]]_vars

---------------------------------------------------------------------------
(* Claims about the interrupt-flag register, checked under SpecCpu         *)

(* C22: a read of 0xFF0F has bits 5-7 set in every state, and after a step *)
(* that executed LDH (0x0F),A the read returns (A & 0x1F) | 0xE0: the      *)
(* register stores only its low five bits and its upper three read as 1.   *)
C22_IfUpperBitsReadOne ==
    /\ [](BitAnd(read_byte(mmu, \hFF0F), \hE0) = \hE0)
    /\ [][(/\ obs'.op = "step" /\ obs'.kind = "exec" /\ obs'.opcode = \hE0
           /\ read_byte(mmu, WrappingAdd16(cpu.registers.pc, 1)) = \h0F
           /\ cpu'.registers.pc = WrappingAdd16(cpu.registers.pc, 2))
              => read_byte(mmu', \hFF0F) = BitOr(BitAnd(cpu.registers.a, \h1F), \hE0)]_vars

---------------------------------------------------------------------------
(* SpecDma: bus writes fill video RAM, work RAM, OAM and high RAM; a write *)
(* to 0xFF46 starts an OAM DMA; writes to 0xFF51-0xFF54 latch the source   *)
(* and the destination of a general-purpose HDMA and a write to 0xFF55     *)
(* starts it.  obs keeps the last write, hist counts the HDMA transfers.   *)

MaxTransfers == 2

InitDma ==
    \E is_gbc \in BOOLEAN :
        /\ cpu = CpuNew
        /\ mmu = MmuNew(CartridgeLoad([len |-> \h8000, type_byte |-> \h00,
                                       ram_byte |-> \h00, seed |-> \h35,
                                       code |-> EmptyArray]), is_gbc)
        /\ obs = [op |-> "none", address |-> 0, value |-> 0]
        /\ hist = [transfers |-> 0]

\* one bus write: a fill of work RAM, an OAM DMA start, an HDMA latch or an
\* HDMA start
DmaWrite ==
    \E write \in ({\hC000} \X {\h5A})
                    \cup ({\hFF46} \X {\hC0, \hFF})
                    \cup ({\hFF51} \X {\h01}) \cup ({\hFF52} \X {\h25})
                    \cup ({\hFF53} \X {\h9F}) \cup ({\hFF54} \X {\hF0})
                    \cup ({\hFF55} \X {\h00, \h81}) :
        /\ obs.op # "abort"
        /\ write[1] = \hFF55 => hist.transfers < MaxTransfers
        /\ mmu' = write_byte(mmu, write[1], write[2])
        /\ obs' = [op |-> IF write[1] = \hFF55 /\ hdma_overruns(mmu, write[2])
                          THEN "abort" ELSE "write",
                   address |-> write[1], value |-> write[2]]
        /\ hist' = [hist EXCEPT !.transfers = IF write[1] = \hFF55 THEN @ + 1 ELSE @]
        /\ UNCHANGED cpu

SpecDma == InitDma /\ [][DmaWrite]_vars

---------------------------------------------------------------------------
(* Claims about the DMA engines, checked under SpecDma                     *)

(* C23: a write of XX to 0xFF46 leaves in every OAM byte i of 0..159 the   *)
(* value a bus read of XX00+i returned before the write, and changes no    *)
(* memory other than OAM.                                                  *)
C23_OamDmaMirrorsBus ==
    [][(obs'.op = "write" /\ obs'.address = \hFF46)
          => /\ \A i \in 0..159 :
                  read_byte(mmu', \hFE00 + i) = read_byte(mmu, Shl(obs'.value, 8) + i)
             /\ [mmu' EXCEPT !.ppu.oam = mmu.ppu.oam] = mmu]_vars

(* C24: a write of n to 0xFF55 leaves, for every i below ((n & 0x7F)+1)*16 *)
(* whose destination lies in VRAM, in the VRAM byte at                     *)
(* ((dest & 0x1FF0) | 0x8000) + i the byte the bus held at                 *)
(* (source & 0xFFF0) + i before the write.                                 *)
C24_HdmaCopiesBlock ==
    [][(obs'.op = "write" /\ obs'.address = \hFF55)
          => \A i \in 0..((BitAnd(obs'.value, \h7F) + 1) * 16 - 1) :
                BitOr(BitAnd(mmu.hdma_dest, \h1FF0), \h8000) + i <= \h9FFF
                    => read_byte(mmu', BitOr(BitAnd(mmu.hdma_dest, \h1FF0), \h8000) + i)
                         = read_byte(mmu, BitAnd(mmu.hdma_source, \hFFF0) + i)]_vars

---------------------------------------------------------------------------
(* SpecJoypad: the host loop of main.rs seen from the joypad.  At the      *)
(* start of a host frame the eight keys are sampled and stored with        *)
(* set_up .. set_select, in that order; then the inner loop runs at least  *)
(* once.  One iteration is a CPU step, here a bus write to the select      *)
(* lines (0xFF00), a write of 0 to IF, or no write, followed by the loop's *)
(* collection of the joypad request into IF bit 4.  obs keeps the last     *)
(* operation; hist.fell says whether a low-nibble bit of the register      *)
(* value went from 1 to 0 during it, hist.owed whether one did so in an    *)
(* iteration since the keys were last sampled, hist.polled that the keys   *)
(* were just sampled.                                                      *)

\* a low-nibble bit that is 1 in `before` and 0 in `after`
Fell(before, after) == BitAnd(BitAnd(before, \hFF - after), \h0F) # 0

InitJoypad ==
    /\ cpu = CpuNew
    /\ mmu = MmuNew(CartridgeLoad([len |-> \h8000, type_byte |-> \h00,
                                   ram_byte |-> \h00, seed |-> \h35,
                                   code |-> EmptyArray]), FALSE)
    /\ obs = [op |-> "none", value |-> 0]
    /\ hist = [fell |-> FALSE, owed |-> FALSE, polled |-> FALSE]

PollKeys ==
    \E held \in SUBSET {"up", "right", "a", "select"} :
        LET order == <<"up", "down", "left", "right", "a", "b", "start", "select">>
            RECURSIVE sample(_, _, _)
            sample(j, fell, k) ==
                IF k > Len(order) THEN [joypad |-> j, fell |-> fell]
                ELSE CHOOSE r \in
                        {sample(next, fell \/ Fell(joypad_read(j), joypad_read(next)), k + 1) :
                            next \in {joypad_set(j, order[k], order[k] \in held)}} : TRUE
            done == sample(mmu.joypad, FALSE, 1)
        IN  /\ ~hist.polled
            /\ mmu' = [mmu EXCEPT !.joypad = done.joypad]
            /\ obs' = [op |-> "poll", value |-> joypad_read(done.joypad)]
            /\ hist' = [fell |-> done.fell, owed |-> FALSE, polled |-> TRUE]
            /\ UNCHANGED cpu

Iteration ==
    \E write \in {<<>>, <<\hFF0F, \h00>>} \cup {<<\hFF00, v>> : v \in {\h00, \h10, \h20, \h30}} :
        LET stepped == IF write = <<>> THEN mmu ELSE write_byte(mmu, write[1], write[2])
            collected ==
                IF stepped.joypad.interrupt_requested
                THEN [stepped EXCEPT !.if_reg = BitOr(@, \h10),
                                     !.joypad.interrupt_requested = FALSE]
                ELSE stepped
        IN  /\ mmu' = collected
            /\ obs' = [op |-> "step", value |-> joypad_read(collected.joypad)]
            /\ \E fell \in {Fell(joypad_read(mmu.joypad), joypad_read(collected.joypad))} :
                    hist' = [fell |-> fell, owed |-> hist.owed \/ fell, polled |-> FALSE]
            /\ UNCHANGED cpu

SpecJoypad == InitJoypad /\ [][PollKeys \/ Iteration]_vars

---------------------------------------------------------------------------
(* Claims about the joypad interrupt, checked under SpecJoypad             *)

(* C25: every 1-to-0 transition of a low-nibble bit of the register value *)
(* is answered by a joypad request, and nothing else is: a key sampling    *)
(* leaves the request raised exactly if a bit made that transition during  *)
(* the sampling or in an iteration since the previous sampling (by a       *)
(* select-line write), and an iteration of the loop ends with IF bit 4 set *)
(* if it found the request raised and does not set the bit otherwise.      *)
C25_JoypadFallRequests ==
    /\ [][obs'.op = "poll"
            => (mmu'.joypad.interrupt_requested <=> (hist'.fell \/ hist.owed))]_vars
    /\ [][obs'.op = "step"
            => IF mmu.joypad.interrupt_requested
               THEN BitAnd(mmu'.if_reg, \h10) # 0 /\ ~mmu'.joypad.interrupt_requested
               ELSE BitAnd(mmu'.if_reg, \h10) # 0 => BitAnd(mmu.if_reg, \h10) # 0]_vars

---------------------------------------------------------------------------
(* Claims about opcodes without an instruction and STOP, checked under     *)
(* SpecCpu                                                                 *)

(* C29: a step that fetches one of the eleven opcodes without a defined    *)
(* instruction, at any PC, does not abort, returns 4 cycles, advances PC   *)
(* by exactly 1 (so that the next step fetches the following byte) and     *)
(* changes no other register, no flag and no memory.                       *)
C29_UndefinedOpcodeIsNop ==
    [][(obs'.op = "step" /\ obs'.kind \in {"exec", "abort"}
            /\ obs'.opcode \in UnknownOpcodes /\ cpu' # cpu)
          => /\ obs'.kind = "exec"
             /\ obs'.cycles = 4
             /\ cpu'.registers = [cpu.registers EXCEPT !.pc = WrappingAdd16(@, 1)]
             /\ mmu' = mmu]_vars

(* C30: a step that executes STOP moves PC past the byte that follows the  *)
(* opcode; if bit 0 of the register at 0xFF4D was set, the register has    *)
(* bit 7 toggled and bit 0 cleared afterwards and the CPU is not halted;   *)
(* if bit 0 was clear, the register is unchanged and the CPU is halted.    *)
C30_StopSwitchesSpeed ==
    [][(obs'.op = "step" /\ obs'.kind = "exec" /\ obs'.opcode = \h10 /\ cpu' # cpu)
          => /\ cpu'.registers.pc = WrappingAdd16(cpu.registers.pc, 2)
             /\ IF BitAnd(read_byte(mmu, \hFF4D), \h01) # 0
                THEN /\ read_byte(mmu', \hFF4D)
                            = BitAnd(BitXor(read_byte(mmu, \hFF4D), \h80), \hFE)
                     /\ ~cpu'.halted
                ELSE /\ read_byte(mmu', \hFF4D) = read_byte(mmu, \hFF4D)
                     /\ cpu'.halted]_vars

---------------------------------------------------------------------------
(* SpecAudio: the emulator thread and the host audio callback share the    *)
(* APU's sample queue, an Arc<Mutex<Vec<f32>>>.  mmu holds the shared      *)
(* object: the queue and the holder of its mutex.  cpu holds the emulator  *)
(* thread inside Apu::generate_sample: its position, the number of samples *)
(* it has generated and the sample in hand.  obs holds the callback        *)
(* thread: its position, the frames it still has to fill and the samples   *)
(* it has written to the device so far.  hist keeps the samples the queue  *)
(* accepted, in order, the number of callback invocations and the number  *)
(* of samples generated at which the run is cut off.  A sample             *)
(* is named by its number of generation (1, 2, ...); 0 stands for the      *)
(* silence 0.0 the callback writes when the queue is empty.  The run       *)
(* starts either with an empty queue or after the emulator generated       *)
(* 2 * BUFFER_SIZE - 1 samples before the first callback.                  *)

BUFFER_SIZE == 2048

MaxSamples == 3

MaxCallbacks == 2

InitAudio ==
    \E queued \in {0, BUFFER_SIZE * 2 - 1} :
        /\ mmu = [audio_buffer |-> [i \in 1..queued |-> i], mutex |-> "free"]
        /\ cpu = [pc |-> "run", generated |-> queued, sample |-> 0]
        /\ obs = [pc |-> "idle", frames |-> 0, out |-> <<>>]
        /\ hist = [accepted |-> [i \in 1..queued |-> i], callbacks |-> 0,
                   limit |-> queued + MaxSamples]

\* generate_sample: the sample is computed, then self.audio_buffer.lock()
EmuLock ==
    /\ cpu.pc = "run" /\ cpu.generated < hist.limit
    /\ mmu.mutex = "free"
    /\ mmu' = [mmu EXCEPT !.mutex = "emulator"]
    /\ cpu' = [cpu EXCEPT !.pc = "locked", !.generated = @ + 1, !.sample = cpu.generated + 1]
    /\ UNCHANGED <<obs, hist>>

\* if buffer.len() < BUFFER_SIZE * 2 { buffer.push(sample); } with len() read
\* as one more than the real length
EmuPushOffByOne ==
    /\ cpu.pc = "locked"
    /\ \E accepts \in {Len(mmu.audio_buffer) + 1 < BUFFER_SIZE * 2 + 2} :
        /\ mmu' = [mmu EXCEPT !.audio_buffer = IF accepts THEN Append(@, cpu.sample) ELSE @]
        /\ hist' = [hist EXCEPT !.accepted = IF accepts THEN Append(@, cpu.sample) ELSE @]
    /\ cpu' = [cpu EXCEPT !.pc = "pushed"]
    /\ UNCHANGED obs

\* if buffer.len() < BUFFER_SIZE * 2 { buffer.push(sample); }
EmuPush ==
    /\ cpu.pc = "locked"
    /\ \E accepts \in {Len(mmu.audio_buffer) < BUFFER_SIZE * 2} :
        /\ mmu' = [mmu EXCEPT !.audio_buffer = IF accepts THEN Append(@, cpu.sample) ELSE @]
        /\ hist' = [hist EXCEPT !.accepted = IF accepts THEN Append(@, cpu.sample) ELSE @]
    /\ cpu' = [cpu EXCEPT !.pc = "pushed"]
    /\ UNCHANGED obs

\* the guard is dropped at the end of the `if let` block
EmuUnlock ==
    /\ cpu.pc = "pushed"
    /\ mmu' = [mmu EXCEPT !.mutex = "free"]
    /\ cpu' = [cpu EXCEPT !.pc = "run"]
    /\ UNCHANGED <<obs, hist>>

\* the host calls the data callback with a buffer of 1 or 2 frames
CbInvoke ==
    \E frames \in {1, 2} :
        /\ obs.pc = "idle" /\ hist.callbacks < MaxCallbacks
        /\ obs' = [obs EXCEPT !.pc = "called", !.frames = frames]
        /\ hist' = [hist EXCEPT !.callbacks = @ + 1]
        /\ UNCHANGED <<cpu, mmu>>

\* let mut buffer = audio_buffer.lock().unwrap()
CbLock ==
    /\ obs.pc = "called"
    /\ mmu.mutex = "free"
    /\ mmu' = [mmu EXCEPT !.mutex = "callback"]
    /\ obs' = [obs EXCEPT !.pc = "locked"]
    /\ UNCHANGED <<cpu, hist>>

\* one frame of the callback with the sample taken from the back of the
\* queue
CbFrameFromBack ==
    /\ obs.pc = "locked" /\ obs.frames > 0
    /\ IF mmu.audio_buffer # <<>>
       THEN /\ obs' = [obs EXCEPT !.out = Append(@, mmu.audio_buffer[Len(mmu.audio_buffer)]),
                                  !.frames = @ - 1]
            /\ mmu' = [mmu EXCEPT !.audio_buffer = SubSeq(@, 1, Len(@) - 1)]
       ELSE /\ obs' = [obs EXCEPT !.out = Append(@, 0), !.frames = @ - 1]
            /\ UNCHANGED mmu
    /\ UNCHANGED <<cpu, hist>>

\* one frame of the callback: buffer.remove(0) if the queue is not empty,
\* 0.0 otherwise, written to every channel of the frame
CbFrame ==
    /\ obs.pc = "locked" /\ obs.frames > 0
    /\ IF mmu.audio_buffer # <<>>
       THEN /\ obs' = [obs EXCEPT !.out = Append(@, Head(mmu.audio_buffer)),
                                  !.frames = @ - 1]
            /\ mmu' = [mmu EXCEPT !.audio_buffer = Tail(@)]
       ELSE /\ obs' = [obs EXCEPT !.out = Append(@, 0), !.frames = @ - 1]
            /\ UNCHANGED mmu
    /\ UNCHANGED <<cpu, hist>>

\* the callback returns and its guard is dropped
CbUnlock ==
    /\ obs.pc = "locked" /\ obs.frames = 0
    /\ mmu' = [mmu EXCEPT !.mutex = "free"]
    /\ obs' = [obs EXCEPT !.pc = "idle"]
    /\ UNCHANGED <<cpu, hist>>

SpecAudio ==
    InitAudio /\ [][EmuLock \/ EmuPush \/ EmuUnlock
                        \/ CbInvoke \/ CbLock \/ CbFrame \/ CbUnlock]_vars

---------------------------------------------------------------------------
(* Claims about the sample queue, checked under SpecAudio                  *)

(* C26: under every interleaving the queue holds at most 4096 samples, and *)
(* when the emulator thread reaches its push with 4096 samples queued the  *)
(* sample in hand is dropped and the queue is left as it was.              *)
C26_QueueBounded ==
    /\ [](Len(mmu.audio_buffer) <= 4096)
    /\ [][(cpu.pc = "locked" /\ cpu'.pc = "pushed" /\ Len(mmu.audio_buffer) = 4096)
            => mmu'.audio_buffer = mmu.audio_buffer]_vars

\* the emulator thread has just dropped a sample at a full queue
C26_Witness ==
    /\ cpu.pc = "pushed"
    /\ Len(mmu.audio_buffer) = 4096
    /\ hist.accepted[Len(hist.accepted)] # cpu.sample

(* C27: the queue changes only in a step of the thread holding the mutex,  *)
(* by an append at the back (emulator thread) or a removal at the front    *)
(* (callback); the samples the callback has written, followed by the       *)
(* samples still queued, are the accepted samples in order of generation,  *)
(* each once; and a frame filled while the queue is empty is silence.      *)
C27_QueueIsFifoUnderMutex ==
    /\ [][mmu'.audio_buffer # mmu.audio_buffer
            => \/ /\ mmu.mutex = "emulator" /\ cpu.pc = "locked" /\ obs' = obs
                  /\ mmu'.audio_buffer = Append(mmu.audio_buffer, cpu.sample)
               \/ /\ mmu.mutex = "callback" /\ obs.pc = "locked" /\ cpu' = cpu
                  /\ mmu'.audio_buffer = Tail(mmu.audio_buffer)]_vars
    /\ [](SelectSeq(obs.out, LAMBDA s : s # 0) \o mmu.audio_buffer = hist.accepted)
    /\ [][(obs'.out # obs.out /\ mmu.audio_buffer = <<>>)
            => obs'.out = Append(obs.out, 0)]_vars

\* the callback has written a queued sample and then silence while the
\* emulator thread was about to push the next sample
C27_Witness ==
    /\ Len(obs.out) >= 2
    /\ obs.out[1] # 0
    /\ obs.out[Len(obs.out)] = 0
    /\ cpu.pc = "locked"

---------------------------------------------------------------------------
(* Claims about the termination of the inner loop, checked under           *)
(* SpecLoopFair                                                            *)

(* C28: every CPU step returns at least 4 cycles; the inner loop of a host *)
(* frame never continues with frame-ready set or with 80,000 or more       *)
(* cycles accumulated; and a frame begun early enough for its loop to fit  *)
(* the run (80,000 cycles and one last step) sees its loop end, with the   *)
(* LCD off or the CPU halted for good as well.                             *)
C28_InnerLoopTerminates ==
    /\ [][obs'.op = "step" => obs'.cycles >= 4]_vars
    /\ [](hist.cycles_this_frame < 80000 /\ ~mmu.ppu.frame_ready)
    /\ [][obs'.frame_ready \/ hist.cycles_this_frame + obs'.cycles >= 80000
            => hist'.cycles_this_frame = 0]_vars
    /\ (hist.cycles_this_frame = 0 /\ obs.op = "none" /\ hist.total + 80024 <= MaxLoopCycles)
          ~> (obs.op = "step" /\ hist.cycles_this_frame = 0)

\* the loop of a frame ended at the cycle cap with the LCD off and the CPU
\* halted
C28_Witness ==
    /\ obs.op = "step" /\ obs.kind = "halt" /\ hist.cycles_this_frame = 0
    /\ ~obs.frame_ready
    /\ BitAnd(mmu.ppu.lcdc, \h80) = 0
    /\ hist.total >= 80000

---------------------------------------------------------------------------
(* SpecWindow: the PPU with a window.  The program has switched the LCD    *)
(* off, filled tile 1 with colour 3 and the window map at 0x9C00 with tile *)
(* 1, left the background map and tile 0 at 0, set WY and WX, enabled the  *)
(* mode 2 source in STAT and has switched the LCD on.  Ppu::step is then   *)
(* fed 24 cycles at a time.  Once, at the start of scanline 5, the program *)
(* may switch the LCD off, may move WY below the screen, and switches the  *)
(* LCD on again; each of these writes is one iteration of the frame loop   *)
(* (the write, then Ppu::step with the 12 cycles of LDH (a8),A).  obs      *)
(* holds the scanline the last step rendered (-1: none).  hist holds the   *)
(* cycles fed since the LCD was switched on, whether the restart has       *)
(* happened, the scanlines rendered since LY was last 0, and whether       *)
(* WY > LY held on each of them.                                           *)

MaxWindowCycles == 66000

InitWindow ==
    LET vram == [a \in {<<0, 16 + k>> : k \in 0..15} |-> \hFF]
                  @@ [a \in {<<0, \h1C00 + 32 * r + c>> : r \in 0..31, c \in 0..19} |-> \h01]
        cartridge == CartridgeLoad([len |-> \h8000, type_byte |-> \h00, ram_byte |-> \h00,
                                    seed |-> \h35, code |-> EmptyArray])
        off == ppu_step([PpuNew(FALSE) EXCEPT !.lcdc = \h11], 12)
    IN  \E scene \in { <<\hF1, 0, 7>>, <<\hF1, 2, 100>>, <<\hF1, 2, 200>>,
                       <<\hF1, 200, 7>>, <<\hF0, 0, 7>> } :
            /\ cpu = CpuNew
            /\ mmu = [MmuNew(cartridge, FALSE) EXCEPT
                          !.ppu = [off EXCEPT !.vram = vram, !.bgp = \hE4,
                                              !.stat = BitOr(@, \h20),
                                              !.lcdc = scene[1], !.wy = scene[2],
                                              !.wx = scene[3]]]
            /\ obs = [op |-> "none", line |-> -1]
            /\ hist = [fed |-> 0, restarted |-> FALSE, rendered |-> 0, hidden |-> TRUE]

\* one call of Ppu::step from the frame loop, LCD on
WindowStep ==
    /\ BitAnd(mmu.ppu.lcdc, \h80) # 0
    /\ hist.fed < MaxWindowCycles
    /\ \E p \in {ppu_step(mmu.ppu, 24)} :
        LET renders == mmu.ppu.stat % 4 = 3 /\ p.stat % 4 = 0 /\ mmu.ppu.ly < SCREEN_HEIGHT
            wraps == mmu.ppu.ly # 0 /\ p.ly = 0
        IN  /\ mmu' = [mmu EXCEPT !.ppu = p]
            /\ obs' = [op |-> "step", line |-> IF renders THEN mmu.ppu.ly ELSE -1]
            /\ hist' = [hist EXCEPT
                          !.fed = @ + 24,
                          !.rendered = IF wraps THEN 0 ELSE IF renders THEN @ + 1 ELSE @,
                          !.hidden = IF wraps THEN TRUE
                                     ELSE IF renders THEN @ /\ mmu.ppu.wy > mmu.ppu.ly ELSE @]
    /\ UNCHANGED cpu

\* one iteration whose instruction writes LCDC or WY
WindowWrite ==
    LET lcd_on == BitAnd(mmu.ppu.lcdc, \h80) # 0
    IN  \E write \in {<<\hFF40, BitAnd(mmu.ppu.lcdc, \h7F)>>, <<\hFF4A, 200>>,
                      <<\hFF40, BitOr(mmu.ppu.lcdc, \h80)>>} :
            /\ IF lcd_on
               THEN /\ write = <<\hFF40, BitAnd(mmu.ppu.lcdc, \h7F)>>
                    /\ ~hist.restarted
                    /\ mmu.ppu.ly = 5 /\ mmu.ppu.stat % 4 = 2 /\ mmu.ppu.dots < 24
               ELSE \/ write = <<\hFF4A, 200>> /\ mmu.ppu.wy # 200
                    \/ write = <<\hFF40, BitOr(mmu.ppu.lcdc, \h80)>>
            /\ \E m \in {write_byte(mmu, write[1], write[2])} :
                   mmu' = [m EXCEPT !.ppu = ppu_step(@, 12)]
            /\ obs' = [op |-> "write", line |-> -1]
            /\ hist' = IF lcd_on THEN [hist EXCEPT !.restarted = TRUE]
                       ELSE IF write[1] = \hFF40
                            THEN [hist EXCEPT !.fed = 0, !.rendered = 0, !.hidden = TRUE]
                            ELSE hist
            /\ UNCHANGED cpu

SpecWindow == InitWindow /\ [][WindowStep \/ WindowWrite]_vars

\* C21: the window-line counter is 0 after the step that enters VBlank; a
\* step that renders a scanline advances it by one if the window drew at
\* least one pixel of that scanline and leaves it alone if not; no other
\* step changes it; and while WY > LY held on every scanline rendered since
\* LY was last 0 and WY is below the screen (so that WY > LY holds on every
\* scanline of the frame), the counter is 0.
C21_WindowLineCounter ==
    /\ [][(mmu.ppu.stat % 4 = 0 /\ mmu'.ppu.stat % 4 = 1) => mmu'.ppu.window_line = 0]_vars
    /\ [][(obs'.op = "step" /\ mmu' # mmu /\ obs'.line >= 0) =>
            mmu'.ppu.window_line =
                IF \E x \in 0..(SCREEN_WIDTH - 1) :
                       Load(mmu'.ppu.framebuffer, obs'.line * SCREEN_WIDTH + x,
                            default_color(FALSE)) = get_bg_color(mmu'.ppu, 3)
                THEN mmu.ppu.window_line + 1 ELSE mmu.ppu.window_line]_vars
    /\ [][(~(obs'.op = "step" /\ obs'.line >= 0)
             /\ ~(mmu.ppu.stat % 4 = 0 /\ mmu'.ppu.stat % 4 = 1)) =>
            mmu'.ppu.window_line = mmu.ppu.window_line]_vars
    /\ [](hist.rendered > 0 /\ hist.hidden /\ mmu.ppu.wy >= SCREEN_HEIGHT =>
            mmu.ppu.window_line = 0)

---------------------------------------------------------------------------
(* Claims about the MBC3 controller, checked under SpecBank and SpecMbc3.  *)

\* C38: on MBC3, a write to 0x4000-0x5FFF leaves the ROM bank of the
\* switchable window unchanged, and once 0x2000-0x3FFF has been written the
\* bank is the low 7 bits of the last value written there (0 taken as 1):
\* rom_bank has that value and a read of 0x4000+o returns that bank's byte.
C38_Mbc3RomBankOnlyByLow ==
    /\ [][(cart.cart_type = "Mbc3" /\ obs'.op = "write" /\ mmu' # mmu
             /\ obs'.address \in Window("upper")) =>
            rom_bank(mmu'.cartridge) = rom_bank(cart)]_vars
    /\ [](LET selected == IF hist["low"] % 128 = 0 THEN 1 ELSE hist["low"] % 128
          IN  (cart.cart_type = "Mbc3" /\ hist["low"] # -1) =>
                  /\ rom_bank(cart) = selected
                  /\ ReadIn(\h4000, \h7FFF) =>
                         obs.result = ImageAt(cart.rom,
                                              selected * \h4000 + (obs.address - \h4000)))

---------------------------------------------------------------------------
(* SpecMbc3: an MBC3 cartridge with 32 KiB of RAM (four banks) receives    *)
(* RAM-enable writes, RAM-bank and RTC-register selections at              *)
(* 0x4000-0x5FFF, and reads and writes of the window 0xA000-0xBFFF.  hist  *)
(* keeps the last byte written to 0x4000-0x5FFF (-1: none).                *)

InitMbc3 ==
    \E rom \in [len : {\h8000}, type_byte : {\h13}, ram_byte : {\h03},
                seed : {\h35}, code : {EmptyArray}] :
        /\ cpu = CpuNew
        /\ mmu = MmuNew(CartridgeLoad(rom), FALSE)
        /\ obs = NoObs
        /\ hist = HistNew({"upper"})

Mbc3CtlWrite == BusWrite({\h0000, \h4000, \h5FFF}, {\h00, \h01, \h03, \h08, \h0A, \h0C})

Mbc3RamWrite == BusWrite({\hA000, \hBFFF}, {\h5C})

Mbc3RamRead == BusRead({\hA000, \hBFFF})

SpecMbc3 == InitMbc3 /\ [][Mbc3CtlWrite \/ Mbc3RamWrite \/ Mbc3RamRead]_vars

\* C33: on MBC3 with RAM enabled, when the last value written to
\* 0x4000-0x5FFF is v in 0..3, a read of 0xA000+o returns cartridge RAM byte
\* v * 0x2000 + o and a write of 0xA000+o stores its value (0x5C here) into
\* that byte and into no other.
C33_Mbc3RamBankSelects ==
    [][(cart.cart_type = "Mbc3" /\ cart.ram_enabled /\ hist["upper"] \in 0..3
          /\ obs'.address \in \hA000..\hBFFF) =>
         LET addr == hist["upper"] * RAM_BANK_SIZE + (obs'.address - \hA000)
         IN  IF obs'.op = "read"
             THEN obs'.result = Load(cart.ram.bytes, addr, 0)
             ELSE mmu'.cartridge.ram.bytes = Store(cart.ram.bytes, addr, \h5C, 0)]_vars

\* C39: on MBC3 with RAM enabled, when the last value written to
\* 0x4000-0x5FFF is a RAM bank 0..3, a read of 0xA000-0xBFFF returns the byte
\* of cartridge RAM the controller addresses and a write stores 0x5C into it,
\* whatever was selected before; and a read that finds RAM enabled returns
\* the fixed RTC value although RAM holds another byte there only when the
\* last selection is an RTC register 0x08..0x0C.
C39_Mbc3RamAfterRtcSelection ==
    [][(cart.cart_type = "Mbc3" /\ cart.ram_enabled /\ obs'.address \in \hA000..\hBFFF) =>
         LET addr == ram_bank(cart) * RAM_BANK_SIZE + (obs'.address - \hA000)
         IN  /\ hist["upper"] \in 0..3 =>
                   IF obs'.op = "read"
                   THEN obs'.result = Load(cart.ram.bytes, addr, 0)
                   ELSE mmu'.cartridge.ram.bytes = Store(cart.ram.bytes, addr, \h5C, 0)
             /\ (obs'.op = "read" /\ obs'.result # Load(cart.ram.bytes, addr, 0)) =>
                   (obs'.result = 0 /\ hist["upper"] \in \h08..\h0C)]_vars

\* C34: a PPU step taken while LCDC bit 7 is clear leaves LY at 0, the STAT
\* mode bits at 0 and the dot counter at 0, clears the STAT interrupt pulse
\* and changes neither the framebuffer, nor the window-line counter, nor
\* frame-ready.  (In SpecWindow the steps taken with the LCD off are those of
\* the iterations that write LCDC or WY.)
C34_LcdOffStepIdles ==
    [][(obs'.op = "write" /\ mmu' # mmu /\ BitAnd(mmu'.ppu.lcdc, \h80) = 0) =>
          /\ mmu'.ppu.ly = 0
          /\ BitAnd(mmu'.ppu.stat, \h03) = 0
          /\ mmu'.ppu.dots = 0
          /\ ~mmu'.ppu.stat_interrupt
          /\ mmu'.ppu.framebuffer = mmu.ppu.framebuffer
          /\ mmu'.ppu.window_line = mmu.ppu.window_line
          /\ mmu'.ppu.frame_ready = mmu.ppu.frame_ready]_vars

\* the LCD has just been switched off on scanline 5, in mode 2, with the
\* mode 2 interrupt pulse up: LY, the mode and the pulse are down, the
\* window-line counter and the framebuffer rows drawn so far are kept
C34_Witness ==
    /\ obs.op = "write" /\ BitAnd(mmu.ppu.lcdc, \h80) = 0 /\ mmu.ppu.wy # 200
    /\ mmu.ppu.ly = 0 /\ mmu.ppu.window_line = 4
    /\ mmu.ppu.framebuffer # EmptyArray

---------------------------------------------------------------------------
(* SpecScan: the PPU over several frames, under two programs.  Both have   *)
(* switched the LCD off, filled tile 1 with colour 3 and the window map    *)
(* with tile 1, put the window at WY = 0, WX = 166 (its first column is    *)
(* screen column 159) and have switched the LCD on.  The first program     *)
(* enables the background and the window (LCDC 0xF1) and never writes      *)
(* STAT; the second leaves them disabled (LCDC 0x80) and writes STAT at    *)
(* any time.  The background is colour 0, which BGP 0xE4 and 0x64 both     *)
(* show in the lightest shade; the window column is colour 3, the darkest  *)
(* shade under BGP 0xE4 and the light one under 0x64.  The frame loop      *)
(* feeds Ppu::step 24 cycles at a time; the iteration after a frame has    *)
(* become ready writes the other palette to BGP, so that the rows drawn in *)
(* a frame differ in column 159 from the rows of the frame before and from *)
(* rows never drawn.  hist counts the frames that have become ready and    *)
(* holds whether the BGP write is due and whether the program writes STAT. *)

MaxFrames == 2

InitScan ==
    LET vram == [a \in {<<0, 16 + k>> : k \in 0..15} |-> \hFF]
                  @@ [a \in {<<0, \h1C00 + 32 * r + c>> : r \in 0..31, c \in 0..19} |-> \h01]
        cartridge == CartridgeLoad([len |-> \h8000, type_byte |-> \h00, ram_byte |-> \h00,
                                    seed |-> \h35, code |-> EmptyArray])
        off == ppu_step([PpuNew(FALSE) EXCEPT !.lcdc = \h11], 12)
    IN  \E lcdc \in {\hF1, \h80} :
            /\ cpu = CpuNew
            /\ mmu = [MmuNew(cartridge, FALSE) EXCEPT
                          !.ppu = [off EXCEPT !.vram = vram, !.bgp = \hE4, !.lcdc = lcdc,
                                              !.wy = 0, !.wx = 166]]
            /\ obs = [op |-> "none", address |-> 0, value |-> 0]
            /\ hist = [frames |-> 0, repaint |-> FALSE, writes_stat |-> lcdc = \h80]

\* one call of Ppu::step from the frame loop; frame_ready was cleared when
\* the frame began (main.rs:90)
ScanStep ==
    /\ ~hist.repaint
    /\ hist.frames < MaxFrames
    /\ \E cycles \in {24} :
       \E p \in {ppu_step([mmu.ppu EXCEPT !.frame_ready = FALSE], cycles)} :
           /\ mmu' = [mmu EXCEPT !.ppu = p]
           /\ obs' = [op |-> "step", address |-> 0, value |-> cycles]
           /\ hist' = [hist EXCEPT
                         !.frames = IF p.frame_ready THEN @ + 1 ELSE @,
                         !.repaint = p.frame_ready]
    /\ UNCHANGED cpu

\* one write_byte of the program: BGP when the frame has just become ready,
\* STAT at any time if the program writes it
ScanWrite ==
    \E write \in ({\hFF47} \X {\hE4, \h64}) \cup ({\hFF41} \X {\h00, \hFF}) :
        /\ IF write[1] = \hFF47 THEN hist.repaint /\ write[2] # mmu.ppu.bgp
                                ELSE hist.writes_stat
        /\ mmu' = write_byte(mmu, write[1], write[2])
        /\ obs' = [op |-> "write", address |-> write[1], value |-> write[2]]
        /\ hist' = IF write[1] = \hFF47 THEN [hist EXCEPT !.repaint = FALSE] ELSE hist
        /\ UNCHANGED cpu

SpecScan == InitScan /\ [][ScanStep \/ ScanWrite]_vars

\* C35: a write of any value to 0xFF41 leaves bits 0-2 and bit 7 of STAT as
\* they were and stores bits 3-6 of the value.
C35_StatWriteKeepsBits ==
    [][(obs'.op = "write" /\ obs'.address = \hFF41) =>
          /\ BitAnd(mmu'.ppu.stat, \h87) = BitAnd(mmu.ppu.stat, \h87)
          /\ BitAnd(mmu'.ppu.stat, \h78) = BitAnd(obs'.value, \h78)]_vars

\* C37: with the LCD on and the window drawn, in every frame after the first
\* frame-ready event
\* the rows drawn so far in this frame (those whose column 159 shows this
\* frame's palette) are rows 0 .. LY - 1, and row LY once its line is in
\* mode 0; window_line, which counts the rows drawn since VBlank was
\* entered, is their number; no row is drawn while LY is 144..153; and when
\* the next frame becomes ready rows 0..143 have all been drawn.
C37_EveryLineOncePerFrame ==
    LET p == mmu.ppu
        drawn == {y \in 0..(SCREEN_HEIGHT - 1) :
                     Load(p.framebuffer, y * SCREEN_WIDTH + 159, default_color(FALSE))
                         = get_bg_color(p, 3)}
        due == IF p.ly >= SCREEN_HEIGHT THEN {}
               ELSE {y \in 0..(SCREEN_HEIGHT - 1) :
                        y < p.ly \/ (y = p.ly /\ BitAnd(p.stat, \h03) = 0)}
    IN  BitAnd(p.lcdc, \h01) # 0 =>
            /\ (hist.frames >= 1 /\ ~hist.repaint) =>
                   (drawn = due /\ p.window_line = Cardinality(due))
            /\ (hist.frames >= 2 /\ hist.repaint) => drawn = 0..(SCREEN_HEIGHT - 1)

\* the second frame has just become ready
C37_Witness ==
    /\ hist.frames = 2 /\ hist.repaint /\ mmu.ppu.ly = SCREEN_HEIGHT
    /\ mmu.ppu.bgp = \h64
    /\ \A y \in 0..(SCREEN_HEIGHT - 1) :
           Load(mmu.ppu.framebuffer, y * SCREEN_WIDTH + 159, default_color(FALSE))
               = get_bg_color(mmu.ppu, 3)

\* C36: a write to 0xFF55 never aborts the emulator, and the transfer it
\* starts changes nothing but the HDMA source latch and bytes at offsets
\* 0..0x1FFF of the selected VRAM bank.
C36_HdmaStaysInVram ==
    /\ [](obs.op # "abort")
    /\ [][obs'.address = \hFF55 =>
            LET bank == IF mmu.ppu.is_gbc THEN BitAnd(mmu.ppu.vram_bank, 1) ELSE 0
            IN  /\ [mmu' EXCEPT !.ppu.vram = mmu.ppu.vram,
                                !.hdma_source = mmu.hdma_source] = mmu
                /\ \A k \in DOMAIN mmu'.ppu.vram :
                       /\ k[2] \in 0..\h1FFF
                       /\ k[1] # bank => /\ k \in DOMAIN mmu.ppu.vram
                                         /\ mmu'.ppu.vram[k] = mmu.ppu.vram[k]]_vars

---------------------------------------------------------------------------
(* SpecHaltFair: the frame loop of SpecLoopFair for programs that halt     *)
(* waiting for the timer.  Each switches the LCD off, sets TIMA and TAC    *)
(* (TAC 0x05 from TIMA 0xF0, TAC 0x04 from TIMA 0xFE, TAC 0x07 from TIMA   *)
(* 0xFC), enables the timer interrupt in IE and halts, the first with IME  *)
(* clear and the others after EI; all loop once they are awake.  The       *)
(* fairness is that of SpecLoopFair.                                       *)

MaxHaltCycles == 4200

InitHalt ==
    \E timer \in {<<\hF0, \h05, \h00>>, <<\hFE, \h04, \hFB>>, <<\hFC, \h07, \hFB>>} :
        /\ cpu = CpuNew
        /\ mmu = MmuNew(CartridgeLoad([len |-> \h8000, type_byte |-> \h00, ram_byte |-> \h00,
                                       seed |-> \h35,
                                       code |-> Handlers @@ CodeAt(\h0100,
                                           <<\h3E, \h00, \hE0, \h40,
                                             \h3E, timer[1], \hE0, \h05,
                                             \h3E, timer[2], \hE0, \h07,
                                             \h3E, \h04, \hE0, \hFF,
                                             timer[3], \h76>> \o Loop)]),
                        FALSE)
        /\ obs = [op |-> "none", kind |-> "none", cycles |-> 0, opcode |-> -1,
                  if_cpu |-> 0, stat_interrupt |-> FALSE,
                  frame_ready |-> FALSE]
        /\ hist = [cycles_this_frame |-> 0, total |-> 0, fed |-> 0, since_div |-> -1,
                   tima0 |-> 0, base |-> 0, run |-> 0]

HaltStep == FrameIteration(MaxHaltCycles)

SpecHaltFair == InitHalt /\ [][HaltStep]_vars /\ WF_vars(HaltStep)

---------------------------------------------------------------------------
(* Claims about HALT and the timer, checked under SpecHaltFair.            *)

(* C40: a CPU halted with the timer enabled (TAC bit 2) and the timer      *)
(* interrupt enabled in IE leaves the halted state: each halted step       *)
(* returns 4 cycles, stays halted only while no enabled interrupt is       *)
(* pending, and the step taken with the overflow's request pending clears  *)
(* the halt flag, whatever IME is (here within 2,100 cycles, the longest   *)
(* wait for an overflow of the programs run).                              *)
C40_HaltedTimerWakes ==
    /\ (/\ cpu.halted
        /\ BitAnd(mmu.timer.tac, \h04) # 0
        /\ BitAnd(mmu.ie, \h04) # 0
        /\ hist.total + 2100 <= MaxHaltCycles) ~> ~cpu.halted
    /\ [][cpu.halted /\ obs'.op = "step" /\ hist'.total # hist.total
            => /\ obs'.kind = "halt" => obs'.cycles = 4 /\ cpu'.halted
               /\ BitAnd(BitAnd(mmu.if_reg, mmu.ie), \h1F) # 0 => ~cpu'.halted
               /\ BitAnd(BitAnd(mmu.if_reg, mmu.ie), \h1F) = 0 => obs'.kind = "halt"]_vars

\* the CPU halted with IME clear has been woken by the timer's request, which
\* is still pending, and runs the loop behind its HALT
C40_Witness ==
    /\ ~cpu.halted /\ ~cpu.ime
    /\ obs.op = "step" /\ obs.kind = "exec" /\ obs.opcode = \h18
    /\ mmu.timer.tac = \h05 /\ mmu.ie = \h04
    /\ BitAnd(mmu.if_reg, \h04) # 0
    /\ cpu.registers.pc = \h0112

---------------------------------------------------------------------------
(* Apu (apu.rs): the four channels, the registers NR10..NR52, the wave RAM *)
(* and the frame sequencer.  ch[c] holds the chN_ fields of channel c (pos *)
(* is ch1_duty_pos, ch2_duty_pos and ch3_wave_pos; the fields a channel    *)
(* lacks stay at their first value), nr the registers NR10..NR51 by bus    *)
(* address.  audio_buffer is the length of the shared sample queue: the    *)
(* value of a sample (the f32 mix and its two filters) is not represented. *)
(* sample_counter counts in units of 1/375 cycle, in which the f32 quotient*)
(* 4194304 / 48000 is 32768; on steps of 4, 12 and 24 cycles the f32       *)
(* counter crosses that quotient on the same steps.                        *)

\* the bus address of register NRcn
NRx(c, n) ==
    (CASE c = 1 -> \hFF10 [] c = 2 -> \hFF15 [] c = 3 -> \hFF1A [] c = 4 -> \hFF1F) + n

\* Apu::new
ApuNew ==
    [ audio_buffer |-> 0,
      sample_counter |-> 0,
      ch |-> [c \in 1..4 |->
                [ freq_timer |-> 0, pos |-> 0, volume |-> 0, volume_initial |-> 0,
                  envelope_timer |-> 0, enabled |-> FALSE, length_counter |-> 0,
                  lfsr |-> IF c = 4 THEN \h7FFF ELSE 0 ]],
      nr |-> [address \in \hFF10..\hFF25 |-> 0],
      nr52 |-> \hF1,
      wave_ram |-> [i \in 0..15 |-> 0],
      frame_sequencer |-> 0,
      cycles |-> 0 ]

\* generate_sample: the sample is mixed and filtered, then pushed unless the
\* queue holds BUFFER_SIZE * 2 samples
generate_sample(a) ==
    IF a.audio_buffer < BUFFER_SIZE * 2 THEN [a EXCEPT !.audio_buffer = @ + 1] ELSE a

\* the period a frequency timer is reloaded with
period(a, c) ==
    LET freq == BitOr(Shl(BitAnd(a.nr[NRx(c, 4)], \h07), 8), a.nr[NRx(c, 3)])
        divisor == IF BitAnd(a.nr[\hFF22], \h07) = 0 THEN 8
                   ELSE BitAnd(a.nr[\hFF22], \h07) * 16
        shift == BitAnd(Shr(a.nr[\hFF22], 4), \h0F)
    IN  CASE c \in {1, 2} -> (2048 - freq) * 4
          [] c = 3 -> (2048 - freq) * 2
          [] c = 4 -> IF shift < 14 THEN Shl(divisor, shift) ELSE 8192

\* update_channels: the frequency timers, the duty and wave positions and
\* the LFSR of the noise channel
update_channels(a, cycles) ==
    LET RECURSIVE reload(_, _)
        reload(k, c) ==
            IF k.freq_timer > 0 THEN k
            ELSE LET bit == BitAnd(BitXor(k.lfsr, Shr(k.lfsr, 1)), 1)
                     shifted == BitOr(Shr(k.lfsr, 1), Shl(bit, 14))
                     lfsr == IF BitAnd(a.nr[\hFF22], \h08) # 0
                             THEN BitOr(BitAnd(shifted, \hFFBF), Shl(bit, 6))
                             ELSE shifted
                 IN  reload([k EXCEPT !.freq_timer = @ + period(a, c),
                                      !.pos = CASE c \in {1, 2} -> BitAnd(@ + 1, 7)
                                                [] c = 3 -> BitAnd(@ + 1, 31)
                                                [] c = 4 -> @,
                                      !.lfsr = IF c = 4 THEN lfsr ELSE @], c)
    IN  [a EXCEPT !.ch = [c \in 1..4 |->
                            IF a.ch[c].enabled
                            THEN reload([a.ch[c] EXCEPT !.freq_timer = @ - cycles], c)
                            ELSE a.ch[c]]]

\* tick_envelope_ch1, _ch2 and _ch4
tick_envelope(a, c) ==
    LET envelope_period == BitAnd(a.nr[NRx(c, 2)], \h07)
        k == a.ch[c]
        timer == IF k.envelope_timer > 0 THEN k.envelope_timer - 1 ELSE k.envelope_timer
        add_mode == BitAnd(a.nr[NRx(c, 2)], \h08) # 0
    IN  IF envelope_period = 0 THEN a
        ELSE IF timer # 0 THEN [a EXCEPT !.ch[c].envelope_timer = timer]
        ELSE [a EXCEPT !.ch[c].envelope_timer = envelope_period,
                       !.ch[c].volume = IF add_mode /\ @ < 15 THEN @ + 1
                                        ELSE IF ~add_mode /\ @ > 0 THEN @ - 1
                                        ELSE @]

\* tick_frame_sequencer
tick_frame_sequencer(a) ==
    LET frame_sequencer == (a.frame_sequencer + 1) % 8
        length(k, c) ==
            IF k.length_counter > 0 /\ BitAnd(a.nr[NRx(c, 4)], \h40) # 0
            THEN [k EXCEPT !.length_counter = @ - 1,
                           !.enabled = IF k.length_counter = 1 THEN FALSE ELSE @]
            ELSE k
        a1 == [a EXCEPT !.frame_sequencer = frame_sequencer]
    IN  CASE frame_sequencer \in {0, 4} ->
                [a1 EXCEPT !.ch = [c \in 1..4 |-> length(a.ch[c], c)]]
          [] frame_sequencer = 7 ->
                tick_envelope(tick_envelope(tick_envelope(a1, 1), 2), 4)
          [] OTHER -> a1

\* Apu::step ignoring the power bit
apu_step_while_off(a, cycles) ==
    LET RECURSIVE samples(_)
        samples(x) ==
            IF x.sample_counter >= 32768
            THEN samples(generate_sample([x EXCEPT !.sample_counter = @ - 32768]))
            ELSE x
        RECURSIVE sequencer(_)
        sequencer(x) ==
            IF x.cycles >= 8192
            THEN sequencer(tick_frame_sequencer([x EXCEPT !.cycles = @ - 8192]))
            ELSE x
    IN  sequencer(samples([update_channels(a, cycles)
                               EXCEPT !.cycles = @ + cycles,
                                      !.sample_counter = @ + cycles * 375]))

\* Apu::step
apu_step(a, cycles) ==
    LET RECURSIVE samples(_)
        samples(x) ==
            IF x.sample_counter >= 32768
            THEN samples(generate_sample([x EXCEPT !.sample_counter = @ - 32768]))
            ELSE x
        RECURSIVE sequencer(_)
        sequencer(x) ==
            IF x.cycles >= 8192
            THEN sequencer(tick_frame_sequencer([x EXCEPT !.cycles = @ - 8192]))
            ELSE x
        a1 == update_channels(a, cycles)
    IN  IF BitAnd(a.nr52, \h80) = 0 THEN a
        ELSE sequencer(samples([a1 EXCEPT !.cycles = @ + cycles,
                                          !.sample_counter = @ + cycles * 375]))

\* Apu::write_register
write_register(a, address, value) ==
    LET trigger(c) ==
            LET k == a.ch[c]
                envelope == a.nr[NRx(c, 2)]
                n == [a EXCEPT !.nr[address] = value]
                full == IF c = 3 THEN 256 ELSE 64
            IN  IF BitAnd(value, \h80) = 0 THEN n
                ELSE [n EXCEPT !.ch[c] =
                        [k EXCEPT !.enabled = TRUE,
                                  !.volume = IF c = 3 THEN @ ELSE BitAnd(Shr(envelope, 4), \h0F),
                                  !.volume_initial =
                                        IF c = 3 THEN @ ELSE BitAnd(Shr(envelope, 4), \h0F),
                                  !.envelope_timer = IF c = 3 THEN @ ELSE BitAnd(envelope, \h07),
                                  !.freq_timer = IF c = 4 THEN @ ELSE period(n, c),
                                  !.pos = IF c = 4 THEN @ ELSE 0,
                                  !.lfsr = IF c = 4 THEN \h7FFF ELSE @,
                                  !.length_counter = IF @ = 0 THEN full ELSE @]]
        length(c) ==
            [a EXCEPT !.nr[address] = value,
                      !.ch[c].length_counter =
                            IF c = 3 THEN 256 - value ELSE 64 - BitAnd(value, \h3F)]
        old_power == BitAnd(a.nr52, \h80) # 0
        new_power == BitAnd(value, \h80) # 0
    IN  IF address # \hFF26 /\ BitAnd(a.nr52, \h80) = 0 THEN a
        ELSE CASE address \in {NRx(c, 1) : c \in 1..4} ->
                    length(CHOOSE c \in 1..4 : NRx(c, 1) = address)
               [] address \in {NRx(c, 4) : c \in 1..4} ->
                    trigger(CHOOSE c \in 1..4 : NRx(c, 4) = address)
               [] address = \hFF26 ->
                    [a EXCEPT !.nr = IF old_power /\ ~new_power
                                     THEN [r \in \hFF10..\hFF25 |-> 0] ELSE @,
                              !.nr52 = BitOr(BitAnd(value, \h80), BitAnd(@, \h0F))]
               [] address \in \hFF30..\hFF3F ->
                    [a EXCEPT !.wave_ram[address - \hFF30] = value]
               [] address \in {\hFF10, \hFF24, \hFF25}
                                \cup {NRx(c, 2) : c \in 1..4} \cup {NRx(c, 3) : c \in 1..4}
                                \cup {\hFF1A} ->
                    [a EXCEPT !.nr[address] = value]
               [] OTHER -> a

---------------------------------------------------------------------------
(* SpecApu: the APU behind the bus (Mmu::write_io hands 0xFF10..0xFF26 and *)
(* 0xFF30..0xFF3F to Apu::write_register, Mmu::step calls Apu::step).  A   *)
(* program is a list of timed register writes; between them Apu::step is   *)
(* fed 24 cycles at a time.  Every program first fills a wave-RAM byte and  *)
(* starts the four channels: channel 1 with length 2 and a falling         *)
(* envelope, channel 2 with length 1, no length enable and a rising        *)
(* envelope, channel 3 with length 2, channel 4 with length 1.  The first  *)
(* then runs on.  The second switches the APU off while the sequencer is  *)
(* in step 2, writes registers and wave RAM while it is off, switches it   *)
(* on and starts channel 1 again; the third switches it off late and       *)
(* leaves it off.  mmu holds the Apu; hist the writes to come, the cycles  *)
(* stepped and those stepped with the APU on.                              *)

MaxApuCycles == 73800

ApuSetup ==
    << <<0, \hFF30, \hA5>>, <<0, \hFF24, \h77>>, <<0, \hFF25, \hFF>>,
       <<0, \hFF12, \hF1>>, <<0, \hFF11, \h3E>>, <<0, \hFF14, \hC0>>,
       <<0, \hFF17, \h09>>, <<0, \hFF16, \h3F>>, <<0, \hFF19, \h80>>,
       <<0, \hFF1A, \h80>>, <<0, \hFF1B, \hFE>>, <<0, \hFF1C, \h20>>, <<0, \hFF1E, \hC0>>,
       <<0, \hFF21, \h52>>, <<0, \hFF22, \h08>>, <<0, \hFF20, \h3F>>, <<0, \hFF23, \hC0>> >>

InitApu ==
    \E program \in
        { ApuSetup,
          ApuSetup \o << <<20016, \hFF26, \h00>>, <<20016, \hFF12, \hF3>>,
                         <<20064, \hFF14, \hC0>>, <<20064, \hFF30, \h5A>>,
                         <<20064, \hFF26, \h00>>, <<20064, \hFF25, \h11>>,
                         <<20112, \hFF26, \h80>>, <<20112, \hFF12, \h29>>,
                         <<20112, \hFF11, \h3D>>, <<20112, \hFF14, \hC7>> >>,
          ApuSetup \o << <<60000, \hFF26, \h7F>>, <<60024, \hFF23, \h80>>,
                         <<60024, \hFF3F, \h11>> >> } :
        /\ cpu = CpuNew
        /\ mmu = [apu |-> ApuNew]
        /\ obs = [op |-> "none", address |-> 0, value |-> 0]
        /\ hist = [program |-> program, total |-> 0, powered |-> 0]

\* Mmu::step, for the APU
ApuStep ==
    /\ hist.total < MaxApuCycles
    /\ hist.program # <<>> => hist.total < Head(hist.program)[1]
    /\ \E cycles \in {24} :
        /\ mmu' = [mmu EXCEPT !.apu = apu_step(@, cycles)]
        /\ obs' = [op |-> "step", address |-> 0, value |-> cycles]
        /\ hist' = [hist EXCEPT !.total = @ + cycles,
                                !.powered = IF BitAnd(mmu.apu.nr52, \h80) # 0
                                            THEN @ + cycles ELSE @]
    /\ UNCHANGED cpu

\* the next write of the program, once its time has come
ApuWrite ==
    /\ hist.program # <<>>
    /\ hist.total >= Head(hist.program)[1]
    /\ \E write \in {Head(hist.program)} :
        /\ mmu' = [mmu EXCEPT !.apu = write_register(@, write[2], write[3])]
        /\ obs' = [op |-> "write", address |-> write[2], value |-> write[3]]
    /\ hist' = [hist EXCEPT !.program = Tail(@)]
    /\ UNCHANGED cpu

SpecApu == InitApu /\ [][ApuStep \/ ApuWrite]_vars

---------------------------------------------------------------------------
(* Claims about the APU, checked under SpecApu.                            *)

(* C31: while the APU is powered the frame sequencer advances one step     *)
(* (mod 8) per 8,192 cycles; on entering each of steps 0, 2, 4 and 6 the   *)
(* length counter of every channel whose NRx4 bit 6 is set and whose       *)
(* counter is above 0 is decremented, the channel being disabled when the  *)
(* counter reaches 0, and no other length counter changes in a step; the   *)
(* envelopes of channels 1, 2 and 4 are ticked on entering step 7 and on   *)
(* no other step.                                                          *)
C31_FrameSequencerSchedule ==
    /\ [](/\ mmu.apu.frame_sequencer = (hist.powered \div 8192) % 8
          /\ mmu.apu.cycles = hist.powered % 8192)
    /\ [][obs'.op = "step" /\ hist'.total # hist.total
            => LET a == mmu.apu
                   ticked == mmu'.apu.frame_sequencer # a.frame_sequencer
                   entered == mmu'.apu.frame_sequencer
               IN  /\ \A c \in 1..4 :
                        LET k == a.ch[c]
                            due == /\ ticked /\ entered \in {0, 2, 4, 6}
                                   /\ BitAnd(a.nr[NRx(c, 4)], \h40) # 0
                                   /\ k.length_counter > 0
                        IN  /\ mmu'.apu.ch[c].length_counter
                                    = IF due THEN k.length_counter - 1 ELSE k.length_counter
                            /\ mmu'.apu.ch[c].enabled
                                    = (k.enabled /\ ~(due /\ k.length_counter = 1))
                   /\ \A c \in {1, 2, 4} :
                        LET k == a.ch[c]
                            envelope == a.nr[NRx(c, 2)]
                            due == ticked /\ entered = 7 /\ BitAnd(envelope, \h07) # 0
                            expires == k.envelope_timer <= 1
                        IN  /\ mmu'.apu.ch[c].envelope_timer
                                    = IF ~due THEN k.envelope_timer
                                      ELSE IF expires THEN BitAnd(envelope, \h07)
                                      ELSE k.envelope_timer - 1
                            /\ mmu'.apu.ch[c].volume
                                    = IF ~(due /\ expires) THEN k.volume
                                      ELSE IF BitAnd(envelope, \h08) # 0
                                      THEN (IF k.volume < 15 THEN k.volume + 1 ELSE k.volume)
                                      ELSE (IF k.volume > 0 THEN k.volume - 1 ELSE k.volume)]_vars

(* C32: a write to NR52 that clears bit 7 of a powered APU zeroes NR10     *)
(* through NR51 and leaves the 16 bytes of wave RAM as they were; while    *)
(* bit 7 is clear, a step of the APU and a write to any APU register but   *)
(* NR52 change no register NR10..NR51, no channel state (enable flags,     *)
(* counters, timers, volumes, positions, LFSR) and push no sample.         *)
C32_PowerOffFreezes ==
    /\ [][(/\ obs'.op = "write" /\ obs'.address = \hFF26
           /\ hist'.program # hist.program
           /\ BitAnd(mmu.apu.nr52, \h80) # 0 /\ BitAnd(obs'.value, \h80) = 0)
            => /\ \A address \in \hFF10..\hFF25 : mmu'.apu.nr[address] = 0
               /\ mmu'.apu.wave_ram = mmu.apu.wave_ram
               /\ BitAnd(mmu'.apu.nr52, \h80) = 0]_vars
    /\ [][(/\ BitAnd(mmu.apu.nr52, \h80) = 0
           /\ hist' # hist
           /\ obs'.op = "step" \/ obs'.address # \hFF26)
            => /\ mmu'.apu.nr = mmu.apu.nr
               /\ mmu'.apu.ch = mmu.apu.ch
               /\ mmu'.apu.audio_buffer = mmu.apu.audio_buffer
               /\ BitAnd(mmu'.apu.nr52, \h80) = 0]_vars

\* with the APU off and steps taken since, a write of a trigger to NR14 has
\* been ignored: the registers are zero, the wave RAM, the samples and the
\* channels are as the power-off left them
C32_Witness ==
    /\ obs.op = "write" /\ obs.address = \hFF14 /\ obs.value = \hC0
    /\ BitAnd(mmu.apu.nr52, \h80) = 0
    /\ hist.total > hist.powered
    /\ mmu.apu.nr[\hFF14] = 0 /\ mmu.apu.nr[\hFF12] = 0
    /\ mmu.apu.wave_ram[0] = \hA5
    /\ mmu.apu.audio_buffer > 0
    /\ mmu.apu.ch[1].enabled /\ mmu.apu.ch[1].volume = 15

====
